---- MODULE Spec2Model ----
(***************************************************************************)
(* A model of the LinkedIn multi-agent post generator: the orchestrator    *)
(* (agents/multi_agent_generator.py), the link analysis stage              *)
(* (agents/link_analysis_agent.py), the research stage                     *)
(* (agents/research_agent.py), the feedback analyses                       *)
(* (agents/feedback_agent.py) and the feedback script                      *)
(* (linkedin_feedback_critique.py).                                        *)
(*                                                                         *)
(* Text is a sequence of one-character strings, so that the regular        *)
(* expressions of the code are computed character by character.            *)
(***************************************************************************)
EXTENDS Integers, Sequences, FiniteSets, TLC

VARIABLES
    program,              \* which entry point the behaviour runs
    instructions,         \* the instruction text given to analyze_all_links
    tavily_extract,       \* LinkAnalysisAgent.tavily_extract is not None
    lpc,                  \* position inside analyze_all_links
    urls,                 \* analyze_all_links: urls (result of detect_links)
    content_summaries,    \* analyze_all_links: content_summaries
    successful_analyses,  \* analyze_all_links: successful_analyses
    partial_analyses,     \* analyze_all_links: partial_analyses
    failed_analyses,      \* analyze_all_links: failed_analyses
    final_analysis,       \* analyze_all_links: the returned dictionary
    llm_outcome,          \* the outcome of the LLM call of an analysis
    call,                 \* the analysis that was called, with its arguments
    result,               \* what the called analysis returned or raised
    gpc,                  \* generator: where the process stands
    use_strands_workflow, \* generate_post: its argument
    call_site,            \* the call of execute_sequential_workflow that runs
    gen_instructions,     \* generate_post: the instructions it read
    current_workflow_id,  \* self.current_workflow_id, None when not set
    workflow_context,     \* execute_sequential_workflow: workflow_context
    composition_context,  \* execute_sequential_workflow: composition_context
    final_post,           \* execute_sequential_workflow: final_post
    active,               \* the stages whose agent call has not returned yet
    stage_log,            \* the stages started by this execute_sequential_workflow
    stage_runs,           \* how often this generate_post started each stage
    stage_raised,         \* whether a stage raised during this generate_post
    seq_calls,            \* how many times execute_sequential_workflow was entered
    calls,                \* how many times generate_post was called
    uuids,                \* how many workflow ids uuid4 has given out
    workflow_history_file,\* the file workflow_history.json
    save_status,          \* how the save_workflow_metadata of this call ended
    outcome,              \* what generate_post gave to its caller
    environment,          \* what the process found: the API key and the input files
    fpc,                  \* feedback script: where main() stands
    feedback_files,       \* output/result-feedback.txt and .json
    exit_code,            \* feedback script: the exit code, -1 while it runs
    analyses,             \* generate_comprehensive_feedback: the analyses made so far
    feedback,             \* generate_comprehensive_feedback: what it returned or raised
    content,              \* feedback script: what load_content_files returned
    savers                \* two generator processes inside save_workflow_metadata

linkVars == <<instructions, tavily_extract, lpc, urls, content_summaries, successful_analyses,
              partial_analyses, failed_analyses, final_analysis>>

parseVars == <<llm_outcome, call, result>>

genVars ==
    <<gpc, use_strands_workflow, call_site, gen_instructions, current_workflow_id,
      workflow_context, composition_context, final_post, active, stage_log, stage_runs,
      stage_raised, seq_calls, calls, uuids, workflow_history_file, save_status, outcome,
      environment>>

\* genVars without the file that two processes share
ownVars ==
    <<gpc, use_strands_workflow, call_site, gen_instructions, current_workflow_id,
      workflow_context, composition_context, final_post, active, stage_log, stage_runs,
      stage_raised, seq_calls, calls, uuids, save_status, outcome, environment>>

reportVars == <<analyses, feedback, content>>

fbVars == <<fpc, feedback_files, exit_code, reportVars>>

vars == <<program, linkVars, parseVars, genVars, fbVars, savers>>

----------------------------------------------------------------------------
(* Bounds of the model *)

\* the instruction texts hold at most this many words of the vocabulary
MaxWords == 2

----------------------------------------------------------------------------
(* Python sequence helpers *)

\* s.startswith(p)
StartsWith(s, p) == Len(s) >= Len(p) /\ SubSeq(s, 1, Len(p)) = p

\* p occurs in s at index i
OccursAt(s, p, i) == i >= 1 /\ i + Len(p) - 1 <= Len(s) /\ SubSeq(s, i, i + Len(p) - 1) = p

\* x in s, for a list s
InSeq(x, s) == \E i \in 1..Len(s) : s[i] = x

\* s[:n]
Take(s, n) == SubSeq(s, 1, IF Len(s) < n THEN Len(s) ELSE n)

\* list(dict.fromkeys(s)): the first occurrence of every entry, in order
RECURSIVE DictFromKeys(_, _)
DictFromKeys(s, seen) ==
    IF s = <<>> THEN <<>>
    ELSE IF Head(s) \in seen THEN DictFromKeys(Tail(s), seen)
         ELSE <<Head(s)>> \o DictFromKeys(Tail(s), seen \cup {Head(s)})

\* the concatenation of a sequence of sequences
RECURSIVE Flatten(_)
Flatten(ss) == IF ss = <<>> THEN <<>> ELSE Head(ss) \o Flatten(Tail(ss))

\* the set of the entries of a sequence
Range(s) == {s[i] : i \in 1..Len(s)}

\* every ordering of a finite set, as sequences without repetition
Orderings(S) == {q \in [1..Cardinality(S) -> S] : Range(q) = S}

----------------------------------------------------------------------------
(* Character classes of the regular expressions *)

LowerCase == {"a", "b", "c", "d", "e", "f", "g", "h", "i", "j", "k", "l", "m",
              "n", "o", "p", "q", "r", "s", "t", "u", "v", "w", "x", "y", "z"}
UpperCase == {"A", "B", "C", "D", "E", "F", "G", "H", "I", "J", "K", "L", "M",
              "N", "O", "P", "Q", "R", "S", "T", "U", "V", "W", "X", "Y", "Z"}
Digits == {"0", "1", "2", "3", "4", "5", "6", "7", "8", "9"}

\* [a-zA-Z]
IsLetter(c) == c \in LowerCase \cup UpperCase
\* [a-zA-Z0-9-]
IsDomainChar(c) == c \in LowerCase \cup UpperCase \cup Digits \cup {"-"}
\* \s
IsSpace(c) == c \in {" ", "\n", "\t", "\r"}
\* [.,;!?]
IsTrailingPunct(c) == c \in {".", ",", ";", "!", "?"}

HTTP == <<"h", "t", "t", "p">>
SCHEME_SEP == <<":", "/", "/">>
WWW_DOT == <<"w", "w", "w", ".">>
HTTP_PREFIX == <<"h", "t", "t", "p", ":", "/", "/">>
HTTPS_PREFIX == <<"h", "t", "t", "p", "s", ":", "/", "/">>

----------------------------------------------------------------------------
(* LinkAnalysisAgent.detect_links *)

\* the index of the last character of the longest run of non-space
\* characters that starts at i (i - 1 when there is none): [^\s]*
RECURSIVE NonSpaceRunEnd(_, _)
NonSpaceRunEnd(s, i) ==
    IF i > Len(s) \/ IsSpace(s[i]) THEN i - 1 ELSE NonSpaceRunEnd(s, i + 1)

\* the same for [a-zA-Z0-9-]*
RECURSIVE DomainRunEnd(_, _)
DomainRunEnd(s, i) ==
    IF i > Len(s) \/ ~IsDomainChar(s[i]) THEN i - 1 ELSE DomainRunEnd(s, i + 1)

\* r'https?://[^\s]+' matched at i: the index of the last character of the
\* match, 0 when the pattern does not match at i
MatchExplicit(s, i) ==
    IF ~OccursAt(s, HTTP, i) THEN 0
    ELSE LET rest == IF OccursAt(s, <<"s">> \o SCHEME_SEP, i + 4) THEN i + 8
                     ELSE IF OccursAt(s, SCHEME_SEP, i + 4) THEN i + 7
                     ELSE 0
         IN  IF rest = 0 \/ NonSpaceRunEnd(s, rest) < rest THEN 0
             ELSE NonSpaceRunEnd(s, rest)

\* r'www\.[^\s]+' matched at i
MatchWww(s, i) ==
    IF ~OccursAt(s, WWW_DOT, i) \/ NonSpaceRunEnd(s, i + 4) < i + 4 THEN 0
    ELSE NonSpaceRunEnd(s, i + 4)

\* r'[a-zA-Z0-9-]+\.[a-zA-Z]{2,}[^\s]*' matched at i: the greedy run of
\* domain characters must be followed by a dot and two letters
MatchDomain(s, i) ==
    LET j == DomainRunEnd(s, i)
    IN  IF /\ j >= i
           /\ j + 3 <= Len(s)
           /\ s[j + 1] = "."
           /\ IsLetter(s[j + 2])
           /\ IsLetter(s[j + 3])
        THEN NonSpaceRunEnd(s, j + 4)
        ELSE 0

\* url_patterns, in the order of the list
NumPatterns == 3
MatchAt(p, s, i) ==
    CASE p = 1 -> MatchExplicit(s, i)
      [] p = 2 -> MatchWww(s, i)
      [] OTHER -> MatchDomain(s, i)

\* re.findall(pattern, instructions): the leftmost matches, not overlapping
RECURSIVE FindAllFrom(_, _, _)
FindAllFrom(p, s, i) ==
    IF i > Len(s) THEN <<>>
    ELSE LET e == MatchAt(p, s, i)
         IN  IF e = 0 THEN FindAllFrom(p, s, i + 1)
             ELSE <<SubSeq(s, i, e)>> \o FindAllFrom(p, s, e + 1)

FindAll(p, s) == FindAllFrom(p, s, 1)

\* urls.extend(matches) for every pattern
Candidates(s) == Flatten([p \in 1..NumPatterns |-> FindAll(p, s)])

\* AddProtocol with 'http://' as the added protocol
AddProtocolHttp(url) ==
    IF StartsWith(url, HTTP_PREFIX) \/ StartsWith(url, HTTPS_PREFIX) THEN url
    ELSE IF StartsWith(url, WWW_DOT) THEN HTTP_PREFIX \o url
    ELSE IF InSeq(".", url) THEN HTTP_PREFIX \o url
    ELSE url

\* the protocol is added to a candidate that has none
AddProtocol(url) ==
    IF StartsWith(url, HTTP_PREFIX) \/ StartsWith(url, HTTPS_PREFIX) THEN url
    ELSE IF StartsWith(url, WWW_DOT) THEN HTTPS_PREFIX \o url
    ELSE IF InSeq(".", url) THEN HTTPS_PREFIX \o url
    ELSE url

\* re.sub(r'[.,;!?]+$', '', url)
RECURSIVE StripTrailingPunct(_)
StripTrailingPunct(url) ==
    IF url # <<>> /\ IsTrailingPunct(url[Len(url)])
    THEN StripTrailingPunct(SubSeq(url, 1, Len(url) - 1))
    ELSE url

NormalizeUrl(url) == StripTrailingPunct(AddProtocol(url))

\* the basic validation: '.' in url and len(url) > 10
MinUrlLen == 10
ValidUrl(url) == InSeq(".", url) /\ Len(url) > MinUrlLen

\* cleaned_urls: the normalized candidates that pass the validation
RECURSIVE CleanUrls(_)
CleanUrls(cands) ==
    IF cands = <<>> THEN <<>>
    ELSE LET url == NormalizeUrl(Head(cands))
         IN  (IF ValidUrl(url) THEN <<url>> ELSE <<>>) \o CleanUrls(Tail(cands))

\* UniqueUrls without the removal of the duplicates
UniqueUrlsKeepsAll(cleaned) == cleaned

\* the duplicates are removed, the order is kept
UniqueUrls(cleaned) == DictFromKeys(cleaned, {})

detect_links(text) == UniqueUrls(CleanUrls(Candidates(text)))

----------------------------------------------------------------------------
(* The instruction texts *)

W_Check == <<"C", "h", "e", "c", "k">>
\* https://example.com/ai
W_https_url == <<"h", "t", "t", "p", "s", ":", "/", "/", "e", "x", "a", "m", "p",
                 "l", "e", ".", "c", "o", "m", "/", "a", "i">>
\* http://example.com/ai
W_http_url == <<"h", "t", "t", "p", ":", "/", "/", "e", "x", "a", "m", "p", "l",
                "e", ".", "c", "o", "m", "/", "a", "i">>
\* www.ex.io
W_www == <<"w", "w", "w", ".", "e", "x", ".", "i", "o">>
\* example.com/ai.
W_bare_dot == <<"e", "x", "a", "m", "p", "l", "e", ".", "c", "o", "m", "/", "a",
                "i", ".">>
\* http://a.b
W_short == <<"h", "t", "t", "p", ":", "/", "/", "a", ".", "b">>

Vocabulary == {W_Check, W_https_url, W_http_url, W_www, W_bare_dot, W_short}

\* ' '.join(words)
RECURSIVE JoinWords(_)
JoinWords(ws) ==
    IF ws = <<>> THEN <<>>
    ELSE IF Len(ws) = 1 THEN ws[1]
    ELSE ws[1] \o <<" ">> \o JoinWords(Tail(ws))

\* "Check https://example.com/ai for trends"
Scenario1Text ==
    JoinWords(<<W_Check, W_https_url, <<"f", "o", "r">>, <<"t", "r", "e", "n", "d", "s">>>>)

Texts ==
    {JoinWords(ws) : ws \in UNION {[1..n -> Vocabulary] : n \in 0..MaxWords}}
        \cup {Scenario1Text}

----------------------------------------------------------------------------
(* Python strings and JSON values *)

\* a Python str: a literal s followed by the characters t, as in
\* f"Web content from {url}"
PyStr(s, t) == [s |-> s, t |-> t]
Lit(s) == PyStr(s, <<>>)
Txt(t) == PyStr("", t)

\* a JSON value (what json.loads returns), tagged by its Python type
JNull == [ty |-> "null", n |-> 0, str |-> Lit(""), l |-> <<>>, o |-> <<>>]
JNum(i) == [ty |-> "num", n |-> i, str |-> Lit(""), l |-> <<>>, o |-> <<>>]
JStr(x) == [ty |-> "str", n |-> 0, str |-> x, l |-> <<>>, o |-> <<>>]
JList(q) == [ty |-> "list", n |-> 0, str |-> Lit(""), l |-> q, o |-> <<>>]
JObj(d) == [ty |-> "obj", n |-> 0, str |-> Lit(""), l |-> <<>>, o |-> d]
\* a float with one decimal, n being its value in tenths: JDec(89) is 8.9
JDec(i) == [ty |-> "dec", n |-> i, str |-> Lit(""), l |-> <<>>, o |-> <<>>]
\* a str taken from a text of which the model keeps only the length n
JBlob(name, i) == [ty |-> "str", n |-> i, str |-> Lit(name), l |-> <<>>, o |-> <<>>]

\* bool(v)
Truthy(v) ==
    CASE v.ty = "null" -> FALSE
      [] v.ty \in {"num", "dec"} -> v.n # 0
      [] v.ty = "str" -> v.str # Lit("") \/ v.n > 0
      [] v.ty = "list" -> v.l # <<>>
      [] OTHER -> DOMAIN v.o # {}

\* the empty dict
EmptyDict == <<>>

\* d.get(k, default)
Get(d, k, default) == IF k \in DOMAIN d THEN d[k] ELSE default

\* an update that keeps the values d already holds
UpdateKeepsOld(d, e) ==
    [k \in DOMAIN d \cup DOMAIN e |-> IF k \in DOMAIN d THEN d[k] ELSE e[k]]

\* d.update(e)
Update(d, e) ==
    [k \in DOMAIN d \cup DOMAIN e |-> IF k \in DOMAIN e THEN e[k] ELSE d[k]]

\* the outcome of a Python call: a returned value or a raised exception
Return(v) == [raised |-> FALSE, value |-> v]
Raise == [raised |-> TRUE, value |-> EmptyDict]

\* TryExcept without the except clause
TryExceptReraises(body, handler) == body

\* try: body / except Exception: handler
TryExcept(body, handler) == IF body.raised THEN handler ELSE body

----------------------------------------------------------------------------
(* An LLM response, as tokens: '{', '}', ',', a member '"k": v' whose value *)
(* is not an object, a key '"k":' whose value is the object that follows,  *)
(* and prose.                                                              *)

Tok(t, k, v) == [t |-> t, k |-> k, v |-> v]
LB == Tok("lb", "", JNull)
RB == Tok("rb", "", JNull)
COMMA == Tok("comma", "", JNull)
PROSE == Tok("w", "", JNull)
KV(k, v) == Tok("kv", k, v)
KEY(k) == Tok("key", k, JNull)

\* json.loads of an object: the parse of toks from index i.  A member given
\* twice keeps its last value.
RECURSIVE ParseObject(_, _), ParseMembers(_, _, _)
ParseFail == [ok |-> FALSE, val |-> EmptyDict, next |-> 0]
ParseObject(toks, i) ==
    IF i > Len(toks) \/ toks[i].t # "lb" THEN ParseFail
    ELSE IF i + 1 <= Len(toks) /\ toks[i + 1].t = "rb"
         THEN [ok |-> TRUE, val |-> EmptyDict, next |-> i + 2]
         ELSE ParseMembers(toks, i + 1, EmptyDict)
ParseMembers(toks, i, acc) ==
    IF i > Len(toks) THEN ParseFail
    ELSE LET m == IF toks[i].t = "kv"
                  THEN [ok |-> TRUE, val |-> toks[i].v, next |-> i + 1]
                  ELSE IF toks[i].t = "key"
                  THEN LET sub == ParseObject(toks, i + 1)
                       IN  [ok |-> sub.ok, val |-> JObj(sub.val), next |-> sub.next]
                  ELSE [ok |-> FALSE, val |-> JNull, next |-> 0]
         IN  IF ~m.ok \/ m.next > Len(toks) THEN ParseFail
             ELSE LET acc2 == Update(acc, (toks[i].k :> m.val))
                  IN  IF toks[m.next].t = "rb"
                      THEN [ok |-> TRUE, val |-> acc2, next |-> m.next + 1]
                      ELSE IF toks[m.next].t = "comma"
                      THEN ParseMembers(toks, m.next + 1, acc2)
                      ELSE ParseFail

\* json.loads(text): the whole text must be one object, else JSONDecodeError
JsonLoads(toks) ==
    LET p == ParseObject(toks, 1)
    IN  IF p.ok /\ p.next = Len(toks) + 1 THEN Return(p.val) ELSE Raise

\* re.search(r'\{.*\}', content, re.DOTALL): the greedy match runs from the
\* first '{' to the last '}' of the text
HasTok(toks, t) == \E i \in 1..Len(toks) : toks[i].t = t
FirstTok(toks, t) == CHOOSE i \in 1..Len(toks) :
                        toks[i].t = t /\ \A j \in 1..(i - 1) : toks[j].t # t
LastTok(toks, t) == CHOOSE i \in 1..Len(toks) :
                       toks[i].t = t /\ \A j \in (i + 1)..Len(toks) : toks[j].t # t
SearchObject(toks) ==
    IF HasTok(toks, "lb") /\ HasTok(toks, "rb") /\ FirstTok(toks, "lb") < LastTok(toks, "rb")
    THEN [found |-> TRUE, group |-> SubSeq(toks, FirstTok(toks, "lb"), LastTok(toks, "rb"))]
    ELSE [found |-> FALSE, group |-> <<>>]

\* the outcome of a call of the LLM agent: it raises, it returns nothing, or
\* it returns a text: its tokens, its length in characters, the lines that
\* start with a bullet (stripped) and the other lines that hold a quote
LLMRaises == [kind |-> "raises", toks |-> <<>>, len |-> 0, bullets |-> <<>>, quotes |-> <<>>]
LLMEmpty == [kind |-> "empty", toks |-> <<>>, len |-> 0, bullets |-> <<>>, quotes |-> <<>>]
LLMText(toks, len, bullets, quotes) ==
    [kind |-> "text", toks |-> toks, len |-> len, bullets |-> bullets, quotes |-> quotes]

\* the length of str(e) for a caught exception e
ErrLen == 40

----------------------------------------------------------------------------
(* LinkAnalysisAgent: the analysis of one URL *)

\* p in s, for strings
RECURSIVE ContainsFrom(_, _, _)
ContainsFrom(s, p, i) ==
    IF i + Len(p) - 1 > Len(s) THEN FALSE
    ELSE IF OccursAt(s, p, i) THEN TRUE ELSE ContainsFrom(s, p, i + 1)
Contains(s, p) == ContainsFrom(s, p, 1)
ContainsAny(s, ps) == \E p \in ps : Contains(s, p)

\* s.lower()
UpperSeq == <<"A", "B", "C", "D", "E", "F", "G", "H", "I", "J", "K", "L", "M",
              "N", "O", "P", "Q", "R", "S", "T", "U", "V", "W", "X", "Y", "Z">>
LowerSeq == <<"a", "b", "c", "d", "e", "f", "g", "h", "i", "j", "k", "l", "m",
              "n", "o", "p", "q", "r", "s", "t", "u", "v", "w", "x", "y", "z">>
LowerChar(c) ==
    IF c \in UpperCase THEN LowerSeq[CHOOSE i \in 1..Len(UpperSeq) : UpperSeq[i] = c] ELSE c
Lower(s) == [i \in 1..Len(s) |-> LowerChar(s[i])]

\* s.replace(p, '')
RECURSIVE RemoveAllFrom(_, _, _)
RemoveAllFrom(s, p, i) ==
    IF i > Len(s) THEN <<>>
    ELSE IF OccursAt(s, p, i) THEN RemoveAllFrom(s, p, i + Len(p))
    ELSE <<s[i]>> \o RemoveAllFrom(s, p, i + 1)
RemoveAll(s, p) == RemoveAllFrom(s, p, 1)

\* urllib.parse.urlparse(url).netloc: what follows '//' up to the next
\* '/', '?' or '#'
RECURSIVE NetlocEnd(_, _)
NetlocEnd(s, i) ==
    IF i > Len(s) \/ s[i] \in {"/", "?", "#"} THEN i - 1 ELSE NetlocEnd(s, i + 1)
Netloc(url) ==
    IF StartsWith(url, HTTPS_PREFIX) THEN SubSeq(url, 9, NetlocEnd(url, 9))
    ELSE IF StartsWith(url, HTTP_PREFIX) THEN SubSeq(url, 8, NetlocEnd(url, 8))
    ELSE <<>>

K_twitter == <<"t", "w", "i", "t", "t", "e", "r", ".", "c", "o", "m">>
K_x == <<"x", ".", "c", "o", "m">>
K_nytimes == <<"n", "y", "t", "i", "m", "e", "s", ".", "c", "o", "m">>
K_linkedin == <<"l", "i", "n", "k", "e", "d", "i", "n", ".", "c", "o", "m">>
K_news == <<"n", "e", "w", "s">>
AIKeywords ==
    {<<"a", "i">>,
     <<"a", "r", "t", "i", "f", "i", "c", "i", "a", "l", "-", "i", "n", "t", "e", "l", "l", "i", "g", "e", "n", "c", "e">>,
     <<"m", "a", "c", "h", "i", "n", "e", "-", "l", "e", "a", "r", "n", "i", "n", "g">>,
     <<"c", "h", "a", "t", "b", "o", "t">>}
TechKeywords ==
    {<<"t", "e", "c", "h">>,
     <<"t", "e", "c", "h", "n", "o", "l", "o", "g", "y">>,
     <<"i", "n", "n", "o", "v", "a", "t", "i", "o", "n">>}
BusinessKeywords ==
    {<<"b", "u", "s", "i", "n", "e", "s", "s">>,
     <<"f", "i", "n", "a", "n", "c", "e">>,
     <<"e", "c", "o", "n", "o", "m", "y">>}
HealthKeywords ==
    {<<"h", "e", "a", "l", "t", "h">>,
     <<"m", "e", "n", "t", "a", "l", "-", "h", "e", "a", "l", "t", "h">>,
     <<"p", "s", "y", "c", "h", "o", "l", "o", "g", "y">>}

_extract_title_from_url(url) ==
    IF Contains(url, K_twitter) \/ Contains(url, K_x) THEN Lit("Twitter/X Post")
    ELSE IF Contains(url, K_nytimes) THEN Lit("New York Times Article")
    ELSE IF Contains(url, K_linkedin) THEN Lit("LinkedIn Content")
    ELSE PyStr("Content from ", RemoveAll(Netloc(url), WWW_DOT))

_infer_theme_from_url(url) ==
    LET url_lower == Lower(url)
    IN  IF ContainsAny(url_lower, AIKeywords) THEN Lit("Artificial Intelligence")
        ELSE IF ContainsAny(url_lower, TechKeywords) THEN Lit("Technology")
        ELSE IF ContainsAny(url_lower, BusinessKeywords) THEN Lit("Business")
        ELSE IF ContainsAny(url_lower, HealthKeywords) THEN Lit("Health & Wellness")
        ELSE IF Contains(url_lower, K_twitter) \/ Contains(url_lower, K_x)
             THEN Lit("Social Media Discussion")
        ELSE IF Contains(url_lower, K_news) THEN Lit("News & Current Events")
        ELSE Lit("Web Content")

\* the record made from the URL alone
_create_fallback_analysis(url, error) ==
    LET title == _extract_title_from_url(url)
        theme == _infer_theme_from_url(url)
        key_points ==
            IF Contains(url, K_twitter) \/ Contains(url, K_x)
            THEN <<Lit("Social media post from Twitter/X platform"),
                   Lit("May contain opinions or breaking news"),
                   Lit("Could include viral content or trending topics")>>
            ELSE IF Contains(url, K_nytimes)
            THEN <<Lit("News article from The New York Times"),
                   Lit("Professional journalism and reporting"),
                   Lit("Likely contains in-depth analysis of current events")>>
            ELSE IF Contains(url, K_linkedin)
            THEN <<Lit("Professional social media content"),
                   Lit("Business or career-related information"),
                   Lit("Professional networking context")>>
            ELSE <<PyStr("Web content from ", url)>>
    IN  [url |-> JStr(Txt(url)),
         status |-> JStr(Lit("fallback")),
         error |-> JStr(Lit(error)),
         title |-> JStr(title),
         main_theme |-> JStr(theme),
         key_points |-> JList(key_points),
         relevant_quotes |-> JList(<<>>),
         supporting_data |-> JList(<<>>),
         linkedin_relevance |-> JStr(Lit("Reference material from {title}")),
         summary |-> JStr(Lit("Content from {title}. Based on URL structure, ..."))]

\* the limits of _extract_analysis_from_text
PartialStatusLen == 200
MaxSalvagedPoints == 5
MaxSalvagedQuotes == 3
SummaryLen == 300

\* the record salvaged from a response that holds no JSON
_extract_analysis_from_text(llm, url, extracted_len) ==
    [url |-> JStr(Txt(url)),
     status |-> JStr(Lit(IF llm.len > PartialStatusLen THEN "partial_success" ELSE "failed")),
     title |-> JStr(_extract_title_from_url(url)),
     main_theme |-> JStr(_infer_theme_from_url(url)),
     key_points |-> JList(IF llm.bullets # <<>> THEN Take(llm.bullets, MaxSalvagedPoints)
                          ELSE <<Lit("content[:200]...")>>),
     relevant_quotes |-> JList(Take(llm.quotes, MaxSalvagedQuotes)),
     supporting_data |-> JList(<<>>),
     linkedin_relevance |-> JStr(Lit("Supporting content for LinkedIn post")),
     summary |-> JBlob("content[:300]",
                       IF llm.len > SummaryLen THEN SummaryLen + 3 ELSE llm.len),
     content_length |-> JNum(IF extracted_len > 0 THEN extracted_len ELSE llm.len),
     extraction_method |-> JStr(Lit(IF extracted_len > 0 THEN "tavily" ELSE "fallback"))]

\* the outcome of self.tavily_extract([url]): it raises, it returns no
\* results, or it returns a content of content_len characters
ExtractRaises == [kind |-> "raises", content_len |-> 0]
ExtractNoResults == [kind |-> "no_results", content_len |-> 0]
ExtractOk(n) == [kind |-> "ok", content_len |-> n]

MinContentLen == 50
max_content_length == 8000
\* len("\n\n[Content truncated to avoid token limits...]")
TruncationNoteLen == 46

\* len(extracted_content) after the truncation
TruncatedLen(n) ==
    IF n > max_content_length THEN max_content_length + TruncationNoteLen ELSE n

\* SuccessFields with the status of a salvaged record
SuccessFieldsPartial(url, extracted_len) ==
    [url |-> JStr(Txt(url)),
     status |-> JStr(Lit("partial_success")),
     content_length |-> JNum(extracted_len),
     extraction_method |-> JStr(Lit("tavily"))]

\* the fields that fetch_and_analyze_content sets on the parsed object
SuccessFields(url, extracted_len) ==
    [url |-> JStr(Txt(url)),
     status |-> JStr(Lit("success")),
     content_length |-> JNum(extracted_len),
     extraction_method |-> JStr(Lit("tavily"))]

\* the body of the outer try of fetch_and_analyze_content
FetchBody(url, has_tavily, extraction, llm) ==
    IF ~has_tavily
    THEN Return(_create_fallback_analysis(url, "Tavily extraction not available"))
    ELSE IF extraction.kind = "raises"
    THEN Return(_create_fallback_analysis(url, "Tavily extraction failed: {e}"))
    ELSE IF extraction.kind = "no_results"
    THEN Return(_create_fallback_analysis(url, "No content extracted"))
    ELSE IF extraction.content_len < MinContentLen
    THEN Return(_create_fallback_analysis(url, "Minimal content extracted"))
    ELSE LET extracted_len == TruncatedLen(extraction.content_len)
         IN  IF llm.kind = "raises" THEN Raise
             ELSE IF llm.kind = "empty"
             THEN Return(_create_fallback_analysis(url, "No analysis response"))
             ELSE LET json_match == SearchObject(llm.toks)
                  IN  IF json_match.found
                      THEN LET loaded == JsonLoads(json_match.group)
                           IN  IF loaded.raised
                               THEN Return(_extract_analysis_from_text(llm, url, extracted_len))
                               ELSE Return(Update(loaded.value,
                                                  SuccessFields(url, extracted_len)))
                      ELSE Return(_extract_analysis_from_text(llm, url, extracted_len))

fetch_and_analyze_content(url, has_tavily, extraction, llm) ==
    TryExcept(FetchBody(url, has_tavily, extraction, llm),
              Return(_create_fallback_analysis(url, "str(e)")))

----------------------------------------------------------------------------
(* LinkAnalysisAgent.analyze_all_links *)

\* list.extend(v): the items that iterating v gives; a number is not iterable
\* (TypeError), a str gives its characters
Iterate(v) ==
    CASE v.ty = "list" -> Return(v.l)
      [] v.ty = "str" -> Return([i \in 1..Len(v.str.t) |-> Txt(<<v.str.t[i]>>)])
      [] v.ty = "obj" -> Return(<<>>)
      [] OTHER -> Raise

\* the statuses whose records are aggregated
UsefulStatuses == {JStr(Lit("success")), JStr(Lit("partial_success")), JStr(Lit("fallback"))}

\* the loop of step 3 over one list field: acc.extend(summary[key]) for every
\* aggregated summary that holds a true value under key
RECURSIVE ExtendAll(_, _, _)
ExtendAll(summaries, key, acc) ==
    IF summaries = <<>> THEN Return(acc)
    ELSE LET summary == Head(summaries)
         IN  IF /\ summary["status"] \in UsefulStatuses
                /\ key \in DOMAIN summary
                /\ Truthy(summary[key])
             THEN LET items == Iterate(summary[key])
                  IN  IF items.raised THEN Raise
                      ELSE ExtendAll(Tail(summaries), key, acc \o items.value)
             ELSE ExtendAll(Tail(summaries), key, acc)

\* all_themes: all_themes.append(summary['main_theme'])
RECURSIVE AllThemes(_)
AllThemes(summaries) ==
    IF summaries = <<>> THEN <<>>
    ELSE LET summary == Head(summaries)
         IN  (IF /\ summary["status"] \in UsefulStatuses
                 /\ "main_theme" \in DOMAIN summary
                 /\ Truthy(summary["main_theme"])
              THEN <<summary["main_theme"]>> ELSE <<>>) \o AllThemes(Tail(summaries))

\* set(all_themes) raises TypeError on a list or a dict
Hashable(v) == v.ty \notin {"list", "obj"}

\* list(set(all_themes)): the distinct themes, in the arbitrary order of the
\* iteration of a set (the hash of a str changes from process to process)
ThemeOrders(all_themes) == Orderings(Range(all_themes))

\* what analyze_all_links returns when detect_links finds no URL
NoLinksAnalysis ==
    [urls_found |-> <<>>,
     total_urls |-> 0,
     successful_analyses |-> 0,
     failed_analyses |-> 0,
     content_summaries |-> <<>>,
     aggregated_themes |-> <<>>,
     all_key_points |-> <<>>,
     all_quotes |-> <<>>,
     summary |-> "No links found in instructions to analyze."]

\* all_key_points and all_quotes of the final analysis
AllKeyPoints(summaries) == ExtendAll(summaries, "key_points", <<>>)
AllQuotes(summaries) == ExtendAll(summaries, "relevant_quotes", <<>>)

\* the final analysis, for one order of the set of themes
FinalAnalysis(found, summaries, ok, partial, failed, themes, key_points, quotes) ==
    [urls_found |-> found,
     total_urls |-> Len(found),
     successful_analyses |-> ok,
     partial_analyses |-> partial,
     failed_analyses |-> failed,
     content_summaries |-> summaries,
     aggregated_themes |-> themes,
     all_key_points |-> key_points,
     all_quotes |-> quotes,
     summary |-> "Analyzed {len(urls)} URLs with ..."]

----------------------------------------------------------------------------
(* The LLM responses and the extraction outcomes of the link analysis *)

\* 'Here is the analysis: {"main_theme": "t1", "key_points": ["p1", "p2"],
\*  "relevant_quotes": ["q1"]}'
R_link1 ==
    LLMText(<<PROSE, LB, KV("main_theme", JStr(Lit("t1"))), COMMA,
              KV("key_points", JList(<<Lit("p1"), Lit("p2")>>)), COMMA,
              KV("relevant_quotes", JList(<<Lit("q1")>>)), RB>>, 120, <<>>, <<>>)
\* '{"main_theme": "t2", "key_points": ["p2", "p3"], "relevant_quotes": ["q1"]}'
R_link2 ==
    LLMText(<<LB, KV("main_theme", JStr(Lit("t2"))), COMMA,
              KV("key_points", JList(<<Lit("p2"), Lit("p3")>>)), COMMA,
              KV("relevant_quotes", JList(<<Lit("q1")>>)), RB>>, 110, <<>>, <<>>)
\* a response without JSON, of 300 characters, with the bullet line '- p1'
R_prose == LLMText(<<PROSE>>, 300, <<Lit("p1")>>, <<>>)
\* '{"main_theme": "t1", "key_points": 5}'
R_link_bad ==
    LLMText(<<LB, KV("main_theme", JStr(Lit("t1"))), COMMA,
              KV("key_points", JNum(5)), RB>>, 40, <<>>, <<>>)

\* '{"status": "done", "url": "http://other.org/page"}'
R_link_status ==
    LLMText(<<LB, KV("status", JStr(Lit("done"))), COMMA,
              KV("url", JStr(Lit("http://other.org/page"))), RB>>, 50, <<>>, <<>>)
\* a response without JSON, of 150 characters
R_short == LLMText(<<PROSE>>, 150, <<>>, <<>>)

\* what the analysis of one URL of the loop meets
LoopOutcomes ==
    {[extraction |-> ExtractOk(1000), llm |-> R_link1],
     [extraction |-> ExtractOk(1000), llm |-> R_link_status],
     [extraction |-> ExtractOk(1000), llm |-> R_short],
     [extraction |-> ExtractOk(1000), llm |-> R_link2],
     [extraction |-> ExtractOk(1000), llm |-> R_prose],
     [extraction |-> ExtractOk(1000), llm |-> R_link_bad],
     [extraction |-> ExtractNoResults, llm |-> LLMEmpty]}

----------------------------------------------------------------------------
(* FeedbackAgent: the four analyses *)

\* analyze_instruction_alignment, analyze_style_compliance,
\* analyze_readability and analyze_structure differ by their prompt and by
\* the name they give to the fallback
AnalysisTypes == {"instruction_alignment", "style_compliance", "readability", "structure"}

MaxRawContent == 500
\* len("...")
EllipsisLen == 3

\* FeedbackAgent._create_fallback_analysis(analysis_type, content), for a
\* content of n characters
FeedbackFallback(analysis_type, n) ==
    [analysis_type |-> JStr(Lit(analysis_type)),
     status |-> JStr(Lit("partial")),
     raw_content |-> JBlob("content", IF n > MaxRawContent
                                      THEN MaxRawContent + EllipsisLen ELSE n),
     note |-> JStr(Lit("Analysis completed but structured data extraction failed"))]

\* the body of the try of an analysis
FeedbackBody(analysis_type, llm) ==
    IF llm.kind = "raises" THEN Raise
    ELSE LET json_match == SearchObject(llm.toks)
         IN  IF json_match.found THEN JsonLoads(json_match.group)
             ELSE Return(FeedbackFallback(analysis_type, llm.len))

analyze_feedback(analysis_type, llm) ==
    TryExcept(FeedbackBody(analysis_type, llm),
              Return(FeedbackFallback(analysis_type, ErrLen)))

----------------------------------------------------------------------------
(* ResearchAgent.research_topic *)

\* an f-string with one argument: the template and the argument
Fmt(template, arg) == [s |-> template, t |-> <<arg.s>> \o arg.t]

\* which of the two prompts research_topic sends: the one with the web
\* search results when the search gave some, else the knowledge-only one
ResearchPrompt(has_web_search, search) ==
    IF has_web_search /\ search = "results" THEN "web_search" ELSE "knowledge"

\* the structure used when the response holds no JSON
ResearchFallback(topic) ==
    [topic |-> JStr(topic),
     current_trends |-> JList(<<Fmt("Current developments in {topic}", topic)>>),
     key_statistics |-> JList(<<Fmt("Growing importance of {topic} in industry", topic)>>),
     industry_implications |-> JList(<<Fmt("{topic} is reshaping business practices", topic)>>),
     expert_perspectives |-> JList(<<Fmt("Experts emphasize the significance of {topic}", topic)>>),
     linkedin_angles |-> JList(<<Fmt("Professionals should understand {topic}", topic)>>),
     supporting_arguments |-> JList(<<Fmt("{topic} drives innovation", topic)>>),
     potential_controversies |-> JList(<<Fmt("Debates around {topic} implementation", topic)>>),
     actionable_insights |-> JList(<<Fmt("Stay informed about {topic} developments", topic)>>)]

\* a record of a failed research that keeps the lists of the fallback
ResearchErrorKeepsLists(topic) ==
    Update(ResearchFallback(topic), [error |-> JStr(Lit("str(e)"))])

\* the record of a failed research
ResearchError(topic) ==
    [topic |-> JStr(topic),
     current_trends |-> JList(<<>>),
     key_statistics |-> JList(<<>>),
     industry_implications |-> JList(<<>>),
     expert_perspectives |-> JList(<<>>),
     linkedin_angles |-> JList(<<>>),
     supporting_arguments |-> JList(<<>>),
     potential_controversies |-> JList(<<>>),
     actionable_insights |-> JList(<<>>),
     error |-> JStr(Lit("str(e)"))]

\* the body of the try of research_topic
ResearchBody(topic, llm) ==
    IF llm.kind = "raises" THEN Raise
    ELSE LET json_match == SearchObject(llm.toks)
         IN  IF json_match.found THEN JsonLoads(json_match.group)
             ELSE Return(ResearchFallback(topic))

research_topic(topic, llm) ==
    TryExcept(ResearchBody(topic, llm), Return(ResearchError(topic)))

----------------------------------------------------------------------------
(* LinkedInMultiAgentGenerator *)

\* generate_post is called at most this many times
MaxCalls == 2

\* the stages of execute_sequential_workflow, in the order of its code
Stages == <<"link_analysis", "topic_research", "composition">>

\* self.current_workflow_id = None
None == 0

\* what a stage returns: the dictionary (the post, for the composition) made
\* by that stage during the n-th execution of execute_sequential_workflow
StageResult(stage, n) == [by |-> stage, call |-> n]
\* a local variable that is not assigned yet
NoResult == [by |-> "none", call |-> 0]

\* the str that compose_linkedin_post returns during the n-th execution of
\* execute_sequential_workflow: the response of the LLM, or the message of
\* its except clause when the call of the LLM raises
ComposedPost(n, llm_raises) ==
    [by |-> "composition", call |-> n,
     text |-> IF llm_raises THEN "Error generating LinkedIn post: {e}" ELSE "response"]

\* CompositionContext as execute_task_with_agent builds it, from the key
\* "topic_research" that the context of the sequential workflow does not hold
CompositionContextOfTask(ins, link_analysis, research_findings) ==
    [instructions |-> ins, link_analysis |-> link_analysis,
     research_findings |-> [by |-> "none", call |-> 0]]

\* composition_context = {"instructions": ..., "link_analysis": ...,
\*                        "research_findings": ...}
CompositionContext(ins, link_analysis, research_findings) ==
    [instructions |-> ins, link_analysis |-> link_analysis,
     research_findings |-> research_findings]

NoContext == CompositionContext(<<>>, NoResult, NoResult)

\* the calls of execute_sequential_workflow: in generate_post when
\* use_strands_workflow is False, at the end of the try of
\* execute_strands_workflow, in the except of execute_strands_workflow, and
\* in the except of generate_post around execute_strands_workflow
CallSites == {"generate_post", "strands_try", "strands_except", "generate_post_except"}

\* the file workflow_history.json: missing, not loadable as JSON, or a list
Missing == [state |-> "missing", records |-> <<>>]
Corrupt == [state |-> "corrupt", records |-> <<>>]
HistoryList(records) == [state |-> "list", records |-> records]

\* a record of a run that does not keep the post
MetadataWithoutPost(workflow_id, context, post) ==
    [workflow_id |-> workflow_id, instructions |-> context["instructions"],
     final_post |-> NoResult]

\* the record of a run
Metadata(workflow_id, context, post) ==
    [workflow_id |-> workflow_id, instructions |-> context["instructions"],
     final_post |-> post]

\* what the file system does to save_workflow_metadata: the read of an
\* existing file works or fails; the open for writing fails, or json.dump
\* fails after open(..., 'w') has truncated the file, or the write works
IOOutcomes == [read : {"ok", "fails"}, write : {"ok", "open_fails", "dump_fails"}]

\* an exception raised when the file holds v
RaiseWith(v) == [raised |-> TRUE, value |-> v]

\* the body of the try of save_workflow_metadata: the file it leaves
SaveBody(file, metadata, io) ==
    IF file.state # "missing" /\ (io.read = "fails" \/ file.state = "corrupt")
    THEN RaiseWith(file)
    ELSE LET history == Append(file.records, metadata)
         IN  CASE io.write = "open_fails" -> RaiseWith(file)
               [] io.write = "dump_fails" -> RaiseWith(Corrupt)
               [] OTHER -> Return(HistoryList(history))

\* save_workflow_metadata without its except clause
save_workflow_metadata_unguarded(file, metadata, io) == SaveBody(file, metadata, io)

save_workflow_metadata(file, metadata, io) ==
    LET body == SaveBody(file, metadata, io)
    IN  TryExcept(body, Return(body.value))

----------------------------------------------------------------------------
(* The responses given to the analyses *)

\* the responses hold at most this many tokens
MaxRespLen == 3

ParseAlphabet ==
    {LB, RB, COMMA, PROSE, KV("alignment_score", JNum(7)), KEY("topic_coverage")}

\* 'Sure! {"alignment_score": 7, "topic_coverage": {}}'
Scenario2Response ==
    <<PROSE, LB, KV("alignment_score", JNum(7)), COMMA, KEY("topic_coverage"), LB, RB, RB>>
\* 'Sure! {"alignment_score": 7} I hope this helps :-}'
TrailingBraceResponse ==
    <<PROSE, LB, KV("alignment_score", JNum(7)), RB, PROSE, RB>>
\* 'Use the {curly} format: {"alignment_score": 7}'
LeadingBraceResponse ==
    <<PROSE, LB, PROSE, RB, PROSE, LB, KV("alignment_score", JNum(7)), RB>>

Responses ==
    UNION {[1..n -> ParseAlphabet] : n \in 0..MaxRespLen}
        \cup {Scenario2Response, TrailingBraceResponse, LeadingBraceResponse}

\* the lengths in characters given to a response
RespLens == {200, 201, 500, 501}

LLMOutcomes ==
    {LLMRaises, LLMEmpty}
        \cup {LLMText(toks, n, <<>>, <<>>) : toks \in Responses, n \in RespLens}

\* the extraction outcomes given to the analysis of one URL
Extractions ==
    {ExtractRaises, ExtractNoResults, ExtractOk(49), ExtractOk(50),
     ExtractOk(8000), ExtractOk(8001)}

\* the arguments of a call, and the call that was not made yet
NoCall ==
    [fn |-> "none", analysis_type |-> "", url |-> <<>>, has_tavily |-> FALSE,
     extraction |-> ExtractNoResults, topic |-> Lit(""), prompt |-> ""]

\* the files that load_content_files reads, and what it can find in their
\* place: no file, a file that cannot be read, a file that holds only white
\* space, a file that holds a text
ContentKeys == {"generated_post", "instructions", "style_guide"}
FileStates == {"missing", "unreadable", "empty", "text"}

\* the processes that save to the same history, and their state when no such
\* process runs: pc is where the process stands in save_workflow_metadata,
\* history its local list, status how its save ended, after_other whether it
\* read the file after the other process had finished, mixed whether the
\* other process wrote to the file while this one had it open for writing
Savers == {1, 2}
NotSaving == [pc |-> "start", history |-> <<>>, status |-> "none", after_other |-> FALSE,
              mixed |-> FALSE]
IdleSavers == savers = [p \in Savers |-> NotSaving]

\* nothing was read from the environment yet
NoEnvironment == [openai_api_key |-> FALSE, instructions_file |-> "unread"]

\* the variables of the parts that a behaviour does not run keep these values
IdleLinks ==
    /\ instructions = <<>>
    /\ tavily_extract = FALSE
    /\ lpc = "idle"
    /\ urls = <<>>
    /\ content_summaries = <<>>
    /\ successful_analyses = 0
    /\ partial_analyses = 0
    /\ failed_analyses = 0
    /\ final_analysis = EmptyDict

IdleParse ==
    /\ llm_outcome = LLMEmpty
    /\ call = NoCall
    /\ result = Return(EmptyDict)

IdleProcess ==
    /\ gpc = "idle"
    /\ use_strands_workflow = FALSE
    /\ call_site = "none"
    /\ gen_instructions = <<>>
    /\ current_workflow_id = None
    /\ workflow_context = EmptyDict
    /\ composition_context = NoContext
    /\ final_post = NoResult
    /\ active = {}
    /\ stage_log = <<>>
    /\ stage_runs = [stage \in Range(Stages) |-> 0]
    /\ stage_raised = FALSE
    /\ seq_calls = 0
    /\ calls = 0
    /\ uuids = 0
    /\ save_status = "none"
    /\ outcome = [kind |-> "none", post |-> NoResult]
    /\ environment = NoEnvironment

IdleGen == IdleProcess /\ workflow_history_file = Missing

IdleReport ==
    /\ analyses = <<>>
    /\ feedback = Return(EmptyDict)
    /\ content = EmptyDict

IdleFeedback ==
    /\ fpc = "idle"
    /\ feedback_files = [text |-> "absent", json |-> "absent"]
    /\ exit_code = -1
    /\ IdleReport

InitParse ==
    /\ IdleSavers
    /\ program = "analysis"
    /\ IdleLinks
    /\ IdleGen
    /\ IdleFeedback
    /\ llm_outcome \in LLMOutcomes
    /\ call = NoCall
    /\ result = Return(EmptyDict)

\* one of the four analyses of the FeedbackAgent is called
CallFeedbackAnalysis ==
    /\ program = "analysis"
    /\ call.fn = "none"
    /\ \E analysis_type \in AnalysisTypes :
        /\ call' = [call EXCEPT !.fn = "analyze_feedback", !.analysis_type = analysis_type]
        /\ result' = analyze_feedback(analysis_type, llm_outcome)
    /\ UNCHANGED <<savers, program, llm_outcome, linkVars, genVars, fbVars>>

\* LinkAnalysisAgent.fetch_and_analyze_content is called
CallFetchAndAnalyze ==
    /\ program = "analysis"
    /\ call.fn = "none"
    /\ \E has_tavily \in BOOLEAN, extraction \in Extractions :
        /\ has_tavily \/ extraction = ExtractNoResults
        /\ call' = [call EXCEPT !.fn = "fetch_and_analyze_content", !.url = W_https_url,
                                !.has_tavily = has_tavily, !.extraction = extraction]
        /\ result' = fetch_and_analyze_content(W_https_url, has_tavily, extraction,
                                               llm_outcome)
    /\ UNCHANGED <<savers, program, llm_outcome, linkVars, genVars, fbVars>>

\* ResearchAgent.research_topic is called
CallResearchTopic ==
    /\ program = "analysis"
    /\ call.fn = "none"
    /\ \E has_web_search \in BOOLEAN, search \in {"raises", "no_results", "results"} :
        /\ has_web_search \/ search = "no_results"
        /\ call' = [call EXCEPT !.fn = "research_topic", !.topic = Lit("AI technology"),
                                !.prompt = ResearchPrompt(has_web_search, search)]
        /\ result' = research_topic(Lit("AI technology"), llm_outcome)
    /\ UNCHANGED <<savers, program, llm_outcome, linkVars, genVars, fbVars>>

NextParse == CallFeedbackAnalysis \/ CallFetchAndAnalyze \/ CallResearchTopic

SpecParse == InitParse /\ [][NextParse]_vars

----------------------------------------------------------------------------
(* The run of analyze_all_links *)

InitLinks ==
    /\ IdleSavers
    /\ program = "analyze_all_links"
    /\ instructions \in Texts
    /\ tavily_extract \in BOOLEAN
    /\ lpc = "detect"
    /\ urls = <<>>
    /\ content_summaries = <<>>
    /\ successful_analyses = 0
    /\ partial_analyses = 0
    /\ failed_analyses = 0
    /\ final_analysis = EmptyDict
    /\ IdleParse
    /\ IdleGen
    /\ IdleFeedback

\* step 1: detect_links, and the early return when there is no URL
DetectLinks ==
    /\ program = "analyze_all_links"
    /\ lpc = "detect"
    /\ urls' = detect_links(instructions)
    /\ IF urls' = <<>>
       THEN lpc' = "returned" /\ final_analysis' = NoLinksAnalysis
       ELSE lpc' = "analyze" /\ UNCHANGED final_analysis
    /\ UNCHANGED <<savers, program, instructions, tavily_extract, content_summaries,
                   successful_analyses, partial_analyses, failed_analyses, parseVars, genVars, fbVars>>

\* step 2: one turn of the loop over the URLs
AnalyzeUrl ==
    /\ program = "analyze_all_links"
    /\ lpc = "analyze"
    /\ Len(content_summaries) < Len(urls)
    /\ \E oc \in LoopOutcomes :
        LET url == urls[Len(content_summaries) + 1]
            analysis == fetch_and_analyze_content(url, tavily_extract,
                                                  oc.extraction, oc.llm).value
        IN  /\ content_summaries' = Append(content_summaries, analysis)
            /\ IF analysis["status"] = JStr(Lit("success"))
               THEN /\ successful_analyses' = successful_analyses + 1
                    /\ UNCHANGED <<partial_analyses, failed_analyses>>
               ELSE IF analysis["status"] \in {JStr(Lit("partial_success")),
                                               JStr(Lit("fallback"))}
               THEN /\ partial_analyses' = partial_analyses + 1
                    /\ UNCHANGED <<successful_analyses, failed_analyses>>
               ELSE /\ failed_analyses' = failed_analyses + 1
                    /\ UNCHANGED <<successful_analyses, partial_analyses>>
    /\ UNCHANGED <<savers, program, instructions, tavily_extract, lpc, urls, final_analysis, parseVars, genVars, fbVars>>

\* step 3 and the return: the aggregation raises when a key_points or
\* relevant_quotes value is not iterable or a theme is not hashable
Aggregate ==
    /\ program = "analyze_all_links"
    /\ lpc = "analyze"
    /\ Len(content_summaries) = Len(urls)
    /\ LET all_themes == AllThemes(content_summaries)
           all_key_points == AllKeyPoints(content_summaries)
           all_quotes == AllQuotes(content_summaries)
       IN  IF \/ all_key_points.raised
              \/ all_quotes.raised
              \/ \E i \in 1..Len(all_themes) : ~Hashable(all_themes[i])
           THEN lpc' = "raised" /\ UNCHANGED final_analysis
           ELSE /\ lpc' = "returned"
                /\ \E themes \in ThemeOrders(all_themes) :
                     final_analysis' =
                         FinalAnalysis(urls, content_summaries, successful_analyses,
                                       partial_analyses, failed_analyses, themes,
                                       all_key_points.value, all_quotes.value)
    /\ UNCHANGED <<savers, program, instructions, tavily_extract, urls, content_summaries,
                   successful_analyses, partial_analyses, failed_analyses, parseVars, genVars, fbVars>>

NextLinks == DetectLinks \/ AnalyzeUrl \/ Aggregate

SpecLinks == InitLinks /\ [][NextLinks]_vars

----------------------------------------------------------------------------
(* The runs of the generator and of the feedback script *)

InitRun ==
    /\ IdleSavers
    /\ program \in {"linkedin_multi_agent_generator", "linkedin_feedback_critique"}
    /\ IdleLinks
    /\ IdleParse
    /\ gpc = IF program = "linkedin_multi_agent_generator" THEN "new" ELSE "idle"
    /\ use_strands_workflow = FALSE
    /\ call_site = "none"
    /\ gen_instructions = <<>>
    /\ current_workflow_id = None
    /\ workflow_context = EmptyDict
    /\ composition_context = NoContext
    /\ final_post = NoResult
    /\ active = {}
    /\ stage_log = <<>>
    /\ stage_runs = [stage \in Range(Stages) |-> 0]
    /\ stage_raised = FALSE
    /\ seq_calls = 0
    /\ calls = 0
    /\ uuids = 0
    /\ workflow_history_file = Missing
    /\ save_status = "none"
    /\ outcome = [kind |-> "none", post |-> NoResult]
    /\ environment \in IF program = "linkedin_feedback_critique"
                        THEN [ContentKeys -> FileStates] ELSE {NoEnvironment}
    /\ fpc = IF program = "linkedin_feedback_critique" THEN "start" ELSE "idle"
    /\ feedback_files = [text |-> "absent", json |-> "absent"]
    /\ exit_code = -1
    /\ IdleReport

\* execute_sequential_workflow is entered from a call site: its locals are new
EnterSequential(site, ins) ==
    /\ gpc' = "link_analysis"
    /\ call_site' = site
    /\ seq_calls' = seq_calls + 1
    /\ workflow_context' = ("instructions" :> ins)
    /\ composition_context' = NoContext
    /\ final_post' = NoResult
    /\ stage_log' = <<>>
    /\ outcome' = outcome

\* generate_post re-raises to its caller
RaiseToCaller ==
    /\ gpc' = "raised"
    /\ outcome' = [kind |-> "raised", post |-> NoResult]
    /\ UNCHANGED <<call_site, seq_calls, workflow_context, composition_context, final_post,
                   stage_log>>

\* an exception leaves execute_sequential_workflow: the except of
\* execute_strands_workflow and the inner except of generate_post each call
\* execute_sequential_workflow again, the outer except of generate_post
\* re-raises
Unwind ==
    CASE call_site = "strands_try" -> EnterSequential("strands_except", gen_instructions)
      [] call_site = "strands_except" ->
            EnterSequential("generate_post_except", gen_instructions)
      [] OTHER -> RaiseToCaller

\* read_instructions without the test of the empty text
read_instructions_accepts_empty(instructions_file) ==
    IF instructions_file = "missing" THEN Raise
    ELSE Return(IF instructions_file = "empty" THEN <<>> ELSE Scenario1Text)

\* read_instructions(), for a file that is missing, holds only white space,
\* or holds the text of scenario 1
read_instructions(instructions_file) ==
    IF instructions_file = "missing" THEN Raise
    ELSE TryExcept(IF instructions_file = "empty" THEN Raise ELSE Return(Scenario1Text),
                   Raise)

\* LinkedInMultiAgentGenerator(): a new process builds the generator
Construct ==
    /\ program = "linkedin_multi_agent_generator"
    /\ gpc = "new"
    /\ \E openai_api_key \in BOOLEAN, orchestrator_ok \in BOOLEAN :
        /\ environment' = [environment EXCEPT !.openai_api_key = openai_api_key]
        /\ gpc' = IF openai_api_key /\ orchestrator_ok THEN "idle" ELSE "init_failed"
    /\ current_workflow_id' = None
    /\ UNCHANGED <<savers, program, linkVars, parseVars, fbVars, use_strands_workflow, call_site,
                   gen_instructions, workflow_context, composition_context, final_post,
                   active, stage_log, stage_runs, stage_raised, seq_calls, calls, uuids,
                   workflow_history_file, save_status, outcome>>

\* the process ends and a later one starts
NewProcess ==
    /\ program = "linkedin_multi_agent_generator"
    /\ gpc \in {"returned", "raised", "init_failed"}
    /\ calls < MaxCalls
    /\ gpc' = "new"
    /\ UNCHANGED <<savers, environment, program, linkVars, parseVars, fbVars, use_strands_workflow, call_site,
                   gen_instructions, current_workflow_id, workflow_context,
                   composition_context, final_post, active, stage_log, stage_runs,
                   stage_raised, seq_calls, calls, uuids, workflow_history_file, save_status,
                   outcome>>

\* generate_post(use_strands_workflow), up to the first call it makes after
\* read_instructions
GeneratePost ==
    /\ program = "linkedin_multi_agent_generator"
    /\ gpc \in {"idle", "returned", "raised"}
    /\ calls < MaxCalls
    /\ calls' = calls + 1
    /\ stage_runs' = [stage \in Range(Stages) |-> 0]
    /\ stage_raised' = FALSE
    /\ save_status' = "none"
    /\ \E use \in BOOLEAN, instructions_file \in {"missing", "empty", "text"} :
        /\ use_strands_workflow' = use
        /\ environment' = [environment EXCEPT !.instructions_file = instructions_file]
        /\ IF read_instructions(instructions_file).raised
           THEN /\ gpc' = "raised"
                /\ outcome' = [kind |-> "raised", post |-> NoResult]
                /\ UNCHANGED <<gen_instructions, call_site, seq_calls, workflow_context,
                               composition_context, final_post, stage_log>>
           ELSE /\ gen_instructions' = read_instructions(instructions_file).value
                /\ IF use
                   THEN /\ gpc' = "execute_strands_workflow"
                        /\ outcome' = [kind |-> "none", post |-> NoResult]
                        /\ UNCHANGED <<call_site, seq_calls, workflow_context,
                                       composition_context, final_post, stage_log>>
                   ELSE /\ EnterSequential("generate_post",
                                           read_instructions(instructions_file).value)
    /\ UNCHANGED <<savers, program, linkVars, parseVars, fbVars, current_workflow_id, active, uuids,
                   workflow_history_file>>

\* execute_strands_workflow, up to its call of execute_sequential_workflow:
\* the workflow id is set, then the three calls of the workflow tool work and
\* the try calls execute_sequential_workflow, or one raises and the except does
ExecuteStrandsWorkflow ==
    /\ program = "linkedin_multi_agent_generator"
    /\ gpc = "execute_strands_workflow"
    /\ uuids' = uuids + 1
    /\ current_workflow_id' = uuids + 1
    /\ \E tool_ok \in BOOLEAN :
        EnterSequential(IF tool_ok THEN "strands_try" ELSE "strands_except",
                        gen_instructions)
    /\ UNCHANGED <<savers, environment, program, linkVars, parseVars, fbVars, use_strands_workflow,
                   gen_instructions, active, stage_runs, stage_raised, calls,
                   workflow_history_file, save_status>>

\* execute_sequential_workflow calls the agent of a stage
CallStage(stage) ==
    /\ program = "linkedin_multi_agent_generator"
    /\ gpc = stage
    /\ stage \notin active
    /\ active' = active \cup {stage}
    /\ stage_log' = Append(stage_log, stage)
    /\ stage_runs' = [stage_runs EXCEPT ![stage] = @ + 1]
    /\ composition_context' =
          IF stage = "composition"
          THEN CompositionContext(gen_instructions, workflow_context["link_analysis"],
                                  workflow_context["research_findings"])
          ELSE composition_context
    /\ UNCHANGED <<savers, environment, program, linkVars, parseVars, fbVars, gpc, use_strands_workflow,
                   call_site, gen_instructions, current_workflow_id, workflow_context,
                   final_post, stage_raised, seq_calls, calls, uuids, workflow_history_file,
                   save_status, outcome>>

\* the agent of a stage returns
StageReturns(stage) ==
    /\ program = "linkedin_multi_agent_generator"
    /\ gpc = stage
    /\ stage \in active
    /\ active' = active \ {stage}
    /\ CASE stage = "link_analysis" ->
              /\ workflow_context' =
                    Update(workflow_context,
                           ("link_analysis" :> StageResult(stage, seq_calls)))
              /\ gpc' = "topic_research"
              /\ UNCHANGED final_post
         [] stage = "topic_research" ->
              /\ workflow_context' =
                    Update(workflow_context,
                           ("research_findings" :> StageResult(stage, seq_calls)))
              /\ gpc' = "composition"
              /\ UNCHANGED final_post
         [] OTHER ->
              /\ \E llm_raises \in BOOLEAN :
                    final_post' = ComposedPost(seq_calls, llm_raises)
              /\ gpc' = "save_workflow_metadata"
              /\ UNCHANGED workflow_context
    /\ UNCHANGED <<savers, environment, program, linkVars, parseVars, fbVars, use_strands_workflow, call_site,
                   gen_instructions, current_workflow_id, composition_context, stage_log,
                   stage_runs, stage_raised, seq_calls, calls, uuids, workflow_history_file,
                   save_status, outcome>>

\* the agent of a stage raises
StageRaises(stage) ==
    /\ program = "linkedin_multi_agent_generator"
    /\ gpc = stage
    /\ stage \in active
    /\ active' = active \ {stage}
    /\ stage_raised' = TRUE
    /\ Unwind
    /\ UNCHANGED <<savers, environment, program, linkVars, parseVars, fbVars, use_strands_workflow,
                   gen_instructions, current_workflow_id, stage_runs, calls, uuids,
                   workflow_history_file, save_status>>

\* save_workflow_metadata, and the return of execute_sequential_workflow and
\* of generate_post that follows it
SaveWorkflowMetadata ==
    /\ program = "linkedin_multi_agent_generator"
    /\ gpc = "save_workflow_metadata"
    /\ \E io \in IOOutcomes :
        LET metadata == Metadata(current_workflow_id, workflow_context, final_post)
            body == SaveBody(workflow_history_file, metadata, io)
            saved == save_workflow_metadata(workflow_history_file, metadata, io)
        IN  /\ workflow_history_file' = saved.value
            /\ save_status' = IF body.raised THEN "failed" ELSE "saved"
            /\ IF saved.raised
               THEN Unwind
               ELSE /\ gpc' = "returned"
                    /\ outcome' = [kind |-> "returned", post |-> final_post]
                    /\ UNCHANGED <<call_site, seq_calls, workflow_context,
                                   composition_context, final_post, stage_log>>
    /\ UNCHANGED <<savers, environment, program, linkVars, parseVars, fbVars, use_strands_workflow,
                   gen_instructions, current_workflow_id, active, stage_runs, stage_raised,
                   calls, uuids>>

\* the exit of the feedback script
Exit(code) ==
    /\ fpc' = "exited"
    /\ exit_code' = code

\* the read of one file: f.read().strip()
ReadFile(file) ==
    IF file = "unreadable" THEN Raise
    ELSE Return(IF file = "text" THEN "text" ELSE "")

\* load_content_files without the try around each file
load_content_files_unguarded(files) ==
    IF \E key \in ContentKeys : files[key] = "unreadable" THEN Raise
    ELSE Return([key \in ContentKeys |-> ReadFile(files[key]).value])

\* FeedbackAgent.load_content_files
load_content_files(files) ==
    Return([key \in ContentKeys |->
               IF files[key] # "missing"
               THEN TryExcept(ReadFile(files[key]), Return("")).value
               ELSE ""])

\* main() of linkedin_feedback_critique: FeedbackAgent()
FeedbackConstruct ==
    /\ program = "linkedin_feedback_critique"
    /\ fpc = "start"
    /\ \E agent_ok \in BOOLEAN :
        IF agent_ok THEN fpc' = "load_content_files" /\ UNCHANGED exit_code
        ELSE Exit(1)
    /\ UNCHANGED <<savers, program, linkVars, parseVars, genVars, feedback_files, reportVars>>

\* main(): load_content_files and the validation of the required file
FeedbackLoad ==
    /\ program = "linkedin_feedback_critique"
    /\ fpc = "load_content_files"
    /\ LET loaded == load_content_files(environment)
        IN  IF loaded.raised
            THEN Exit(1) /\ UNCHANGED content
            ELSE /\ content' = loaded.value
                 /\ IF loaded.value["generated_post"] = ""
                    THEN Exit(1)
                    ELSE fpc' = "generate_comprehensive_feedback" /\ UNCHANGED exit_code
    /\ UNCHANGED <<savers, program, linkVars, parseVars, genVars, feedback_files, analyses, feedback>>

\* generate_comprehensive_feedback and format_feedback_output
FeedbackGenerate ==
    /\ program = "linkedin_feedback_critique"
    /\ fpc = "generate_comprehensive_feedback"
    /\ \E raises \in BOOLEAN :
        IF raises THEN Exit(1)
        ELSE fpc' = "save_feedback_to_file" /\ UNCHANGED exit_code
    /\ UNCHANGED <<savers, program, linkVars, parseVars, genVars, feedback_files, reportVars>>

\* a write of an output file in a try: the file it leaves and whether the
\* exception was caught
WriteFile(write_ok) ==
    TryExcept(IF write_ok THEN Return("written") ELSE RaiseWith("failed"),
              Return("failed"))

\* save_feedback_to_file(formatted_feedback)
SaveFeedbackToFile ==
    /\ program = "linkedin_feedback_critique"
    /\ fpc = "save_feedback_to_file"
    /\ \E write_ok \in BOOLEAN :
        LET saved == WriteFile(write_ok)
        IN  /\ feedback_files' = [feedback_files EXCEPT !.text = saved.value]
            /\ IF saved.raised THEN Exit(1)
               ELSE fpc' = "save_json" /\ UNCHANGED exit_code
    /\ UNCHANGED <<savers, program, linkVars, parseVars, genVars, reportVars>>

\* the try around json.dump(feedback, f) in main()
SaveFeedbackJson ==
    /\ program = "linkedin_feedback_critique"
    /\ fpc = "save_json"
    /\ \E write_ok \in BOOLEAN :
        LET saved == WriteFile(write_ok)
        IN  /\ feedback_files' = [feedback_files EXCEPT !.json = saved.value]
            /\ IF saved.raised THEN Exit(1)
               ELSE fpc' = "final_summary" /\ UNCHANGED exit_code
    /\ UNCHANGED <<savers, program, linkVars, parseVars, genVars, reportVars>>

\* the final summary of main(), after which the script ends
FinalSummary ==
    /\ program = "linkedin_feedback_critique"
    /\ fpc = "final_summary"
    /\ Exit(0)
    /\ UNCHANGED <<savers, program, linkVars, parseVars, genVars, feedback_files, reportVars>>

NextRun ==
    \/ Construct
    \/ NewProcess
    \/ GeneratePost
    \/ ExecuteStrandsWorkflow
    \/ \E stage \in Range(Stages) : CallStage(stage)
    \/ \E stage \in Range(Stages) : StageReturns(stage)
    \/ \E stage \in Range(Stages) : StageRaises(stage)
    \/ SaveWorkflowMetadata
    \/ FeedbackConstruct
    \/ FeedbackLoad
    \/ FeedbackGenerate
    \/ SaveFeedbackToFile
    \/ SaveFeedbackJson
    \/ FinalSummary

SpecRun == InitRun /\ [][NextRun]_vars

----------------------------------------------------------------------------
(* FeedbackAgent.generate_comprehensive_feedback *)

\* the analyses in the order in which they are made, with the key of the
\* sub-score of each
AnalysisOrder == <<"instruction_alignment", "style_compliance", "readability", "structure">>
ScoreKeys == <<"alignment_score", "style_score", "readability_score", "structure_score">>

\* analysis.get('..._score', 5)
DefaultScore == 5

\* scores: the four sub-scores, as JSON values
Scores(as) == [i \in 1..Len(as) |-> Get(as[i], ScoreKeys[i], JNum(DefaultScore))]

\* a number in tenths
Tenths(v) == IF v.ty = "dec" THEN v.n ELSE 10 * v.n

\* sum(scores), in tenths: the sum of the numbers, TypeError when an entry is
\* no number
RECURSIVE SumScores(_)
SumScores(scores) ==
    IF scores = <<>> THEN Return(0)
    ELSE LET rest == SumScores(Tail(scores))
         IN  IF Head(scores).ty \notin {"num", "dec"} \/ rest.raised THEN Raise
             ELSE Return(Tenths(Head(scores)) + rest.value)

\* round(num / den, 1), in tenths: the nearest tenth, the even one on a tie
\* (the ties of a mean of four integers are quarters, which a float holds
\* exactly; the scores of the model give no other tie)
RoundOneDecimal(num, den) ==
    LET x == 10 * num
        q == x \div den
        r == x % den
    IN  IF 2 * r < den THEN q
        ELSE IF 2 * r > den THEN q + 1
        ELSE IF q % 2 = 0 THEN q ELSE q + 1

\* _score_to_grade with strict comparisons
_score_to_grade_strict(num, den) ==
    IF num > 9 * den THEN "A"
    ELSE IF num > 8 * den THEN "B+"
    ELSE IF num > 7 * den THEN "B"
    ELSE IF num > 6 * den THEN "C+"
    ELSE IF num > 5 * den THEN "C"
    ELSE "D"

\* _score_to_grade(score), for the score num / den
_score_to_grade(num, den) ==
    IF num >= 9 * den THEN "A"
    ELSE IF num >= 8 * den THEN "B+"
    ELSE IF num >= 7 * den THEN "B"
    ELSE IF num >= 6 * den THEN "C+"
    ELSE IF num >= 5 * den THEN "C"
    ELSE "D"

\* _generate_overall_summary(score, ...): the first word of the summary
_generate_overall_summary(num, den) ==
    IF num >= 8 * den THEN "Excellent"
    ELSE IF num >= 6 * den THEN "Good"
    ELSE IF num >= 4 * den THEN "Fair"
    ELSE "Poor"

\* the keys under which an analysis may hold recommendations
RecKeys ==
    <<"specific_recommendations", "style_recommendations", "accessibility_improvements",
      "structural_recommendations", "areas_for_improvement">>

\* the limits of _compile_recommendations
TopPerCategory == 2
MaxRecommendations == 8

\* recommendations.extend(analysis[key][:2]) for every analysis and key
CollectRecommendations(as) ==
    Flatten([i \in 1..Len(as) |->
        Flatten([k \in 1..Len(RecKeys) |->
            IF RecKeys[k] \in DOMAIN as[i] /\ as[i][RecKeys[k]].ty = "list"
            THEN Take(as[i][RecKeys[k]].l, TopPerCategory)
            ELSE <<>>])])

\* the loop without the test of seen
RECURSIVE UniqueRecommendationsKeepsAll(_, _)
UniqueRecommendationsKeepsAll(recs, seen) ==
    IF recs = <<>> THEN <<>>
    ELSE LET rec == Head(recs)
         IN  IF rec.ty = "str"
             THEN <<rec>> \o UniqueRecommendationsKeepsAll(Tail(recs), seen \cup {rec})
             ELSE UniqueRecommendationsKeepsAll(Tail(recs), seen)

\* the loop that keeps the first occurrence of every str
RECURSIVE UniqueRecommendations(_, _)
UniqueRecommendations(recs, seen) ==
    IF recs = <<>> THEN <<>>
    ELSE LET rec == Head(recs)
         IN  IF rec.ty = "str" /\ rec \notin seen
             THEN <<rec>> \o UniqueRecommendations(Tail(recs), seen \cup {rec})
             ELSE UniqueRecommendations(Tail(recs), seen)

_compile_recommendations(as) ==
    Take(UniqueRecommendations(CollectRecommendations(as), {}), MaxRecommendations)

\* the overall assessment and the recommendations, from the four analyses;
\* overall_score is in tenths
CompileFeedback(as) ==
    LET total == SumScores(Scores(as))
        n == 10 * Len(as)
    IN  IF total.raised THEN Raise
        ELSE Return(
            [overall_assessment |->
                [overall_score |-> RoundOneDecimal(total.value, n),
                 grade |-> _score_to_grade(total.value, n),
                 summary |-> _generate_overall_summary(total.value, n)],
             instruction_alignment |-> as[1],
             style_compliance |-> as[2],
             readability_accessibility |-> as[3],
             structural_analysis |-> as[4],
             recommendations |-> _compile_recommendations(as)])

\* the values that a response gives to the sub-score: numbers inside and
\* outside [1, 10], and the str "8/10"
ScoreValues ==
    {JNum(0), JNum(6), JNum(7), JNum(8), JNum(9), JNum(11), JStr(Lit("8/10"))}

\* '{"<score key>": v}'
ScoreResponse(i, v) == LLMText(<<LB, KV(ScoreKeys[i], v), RB>>, 30, <<>>, <<>>)

\* a recommendation
Rec(name) == JStr(Lit(name))

\* responses that hold recommendations: three items under one key and a
\* repeated item under another; three full keys; a key that holds no list
\* and a list that holds a number
RecResponses ==
    {LLMText(<<LB, KV("specific_recommendations", JList(<<Rec("r1"), Rec("r2"), Rec("r3")>>)),
               COMMA, KV("areas_for_improvement", JList(<<Rec("r2"), Rec("r4")>>)), RB>>,
             150, <<>>, <<>>),
     LLMText(<<LB, KV("style_recommendations", JList(<<Rec("r5"), Rec("r6")>>)),
               COMMA, KV("accessibility_improvements", JList(<<Rec("r7"), Rec("r8")>>)),
               COMMA, KV("structural_recommendations", JList(<<Rec("r9"), Rec("r1")>>)), RB>>,
             200, <<>>, <<>>),
     LLMText(<<LB, KV("specific_recommendations", Rec("r1")),
               COMMA, KV("areas_for_improvement", JList(<<JNum(5), Rec("r10")>>)), RB>>,
             120, <<>>, <<>>)}

\* a sub-score with a decimal: 8.9.  The first analysis alone can give it,
\* so that the mean of the four sub-scores never lies halfway between two
\* tenths, where round depends on the binary digits of the float
DecimalScoreValues == {JDec(89)}

\* the outcomes of the LLM call of the i-th analysis
FeedbackResponses(i) ==
    {LLMRaises, LLMText(<<PROSE>>, 120, <<>>, <<>>)}
        \cup {ScoreResponse(i, v) : v \in ScoreValues}
        \cup {ScoreResponse(i, v) : v \in IF i = 1 THEN DecimalScoreValues ELSE {}}
        \cup RecResponses

InitReport ==
    /\ IdleSavers
    /\ program = "generate_comprehensive_feedback"
    /\ IdleLinks
    /\ IdleParse
    /\ IdleGen
    /\ fpc = "analyze"
    /\ feedback_files = [text |-> "absent", json |-> "absent"]
    /\ exit_code = -1
    /\ IdleReport

\* generate_comprehensive_feedback makes the next of its four analyses
RunAnalysis ==
    /\ program = "generate_comprehensive_feedback"
    /\ fpc = "analyze"
    /\ Len(analyses) < Len(AnalysisOrder)
    /\ \E llm \in FeedbackResponses(Len(analyses) + 1) :
        LET analysis == analyze_feedback(AnalysisOrder[Len(analyses) + 1], llm)
        IN  IF analysis.raised
            THEN /\ fpc' = "raised"
                 /\ feedback' = Raise
                 /\ UNCHANGED analyses
            ELSE /\ analyses' = Append(analyses, analysis.value)
                 /\ UNCHANGED <<fpc, feedback>>
    /\ UNCHANGED <<savers, program, linkVars, parseVars, genVars, feedback_files, exit_code, content>>

\* generate_comprehensive_feedback computes the assessment and returns
AssessAndReturn ==
    /\ program = "generate_comprehensive_feedback"
    /\ fpc = "analyze"
    /\ Len(analyses) = Len(AnalysisOrder)
    /\ feedback' = CompileFeedback(analyses)
    /\ fpc' = IF feedback'.raised THEN "raised" ELSE "returned"
    /\ UNCHANGED <<savers, program, linkVars, parseVars, genVars, feedback_files, exit_code, analyses,
                   content>>

NextReport == RunAnalysis \/ AssessAndReturn

SpecReport == InitReport /\ [][NextReport]_vars

----------------------------------------------------------------------------
(* PostCompositionAgent: the example posts and the prompt *)

\* the largest number of suitable example posts
MaxPosts == 5

\* the count of posts asked for, and the smallest and the largest selection
DefaultCount == 4
MinSelected == 3
MaxSelected == 4

\* the suitable posts found in the directory, by file name
Posts(n) == [i \in 1..n |-> i]

\* random.sample(population, k): ValueError when the sample is larger than
\* the population, else any k entries of it, in any order
RandomSample(population, k) ==
    IF k > Len(population) THEN {Raise}
    ELSE {Return([i \in 1..k |-> population[f[i]]]) :
            f \in {g \in [1..k -> 1..Len(population)] :
                     \A i, j \in 1..k : i # j => g[i] # g[j]}}

\* selected_count = min(count, len(posts));
\* selected_count = max(3, min(selected_count, 4))
SelectedCount(count, n) ==
    LET c1 == IF count < n THEN count ELSE n
        c2 == IF c1 < MaxSelected THEN c1 ELSE MaxSelected
    IN  IF c2 > MinSelected THEN c2 ELSE MinSelected

\* PostCompositionAgent.load_example_posts(count): the outcomes it can have
load_example_posts(dir_exists, posts, count) ==
    IF ~dir_exists THEN {Return(<<>>)}
    ELSE IF posts # <<>> THEN RandomSample(posts, SelectedCount(count, Len(posts)))
    ELSE {Return(<<>>)}

\* LinkedInPostGenerator.select_random_posts(available_posts, count)
select_random_posts(available_posts, count) ==
    IF Len(available_posts) = 0 THEN {Return(<<>>)}
    ELSE RandomSample(available_posts, SelectedCount(count, Len(available_posts)))

\* a text is a list of lines; a line is a literal followed by the str of a
\* value, and kind tells what the value is
Line(label, kind, v) == [label |-> label, kind |-> kind, v |-> v]

\* the lines '  * {item}' for the first n items
ItemLines(items, n) == [i \in 1..Len(Take(items, n)) |-> Line("  * ", "item", items[i])]

\* a heading followed by the lines of the first n items, when there are items
Section(heading, items, n) ==
    IF items = <<>> THEN <<>> ELSE <<Line(heading, "none", <<>>)>> \o ItemLines(items, n)

\* ', '.join(values) raises TypeError when a value is not a str
Joinable(values) == \A i \in 1..Len(values) : values[i].ty = "str"

\* a test that also counts the partial analyses
HasLinkInsightsOrPartial(link_analysis) ==
    /\ DOMAIN link_analysis # {}
    /\ Get(link_analysis, "successful_analyses", 0)
          + Get(link_analysis, "partial_analyses", 0) > 0

\* link_analysis and link_analysis.get('successful_analyses', 0) > 0
HasLinkInsights(link_analysis) ==
    /\ DOMAIN link_analysis # {}
    /\ Get(link_analysis, "successful_analyses", 0) > 0

\* PostCompositionAgent.build_comprehensive_context
build_comprehensive_context(ins, link_analysis, research_findings) ==
    LET has_links == HasLinkInsights(link_analysis)
        themes == Get(link_analysis, "aggregated_themes", <<>>)
        link_part ==
            IF has_links
            THEN <<Line("\nLINK ANALYSIS INSIGHTS:", "none", <<>>),
                   Line("- URLs analyzed: ", "num", Get(link_analysis, "total_urls", 0)),
                   Line("- Main themes: ", "joined", themes)>>
                 \o Section("- Key points from linked content:",
                            Get(link_analysis, "all_key_points", <<>>), 5)
                 \o Section("- Relevant quotes:", Get(link_analysis, "all_quotes", <<>>), 3)
            ELSE <<>>
        topics == Get(research_findings, "topics_researched", <<>>)
        has_research == DOMAIN research_findings # {} /\ topics # <<>>
        aggregated == Get(research_findings, "aggregated_insights", EmptyDict)
        research_part ==
            IF has_research
            THEN <<Line("\nRESEARCH INSIGHTS:", "none", <<>>),
                   Line("- Topics researched: ", "joined", topics)>>
                 \o Section("- Current trends:", Get(aggregated, "all_trends", <<>>), 4)
                 \o Section("- Supporting statistics:", Get(aggregated, "all_statistics", <<>>), 3)
                 \o Section("- Professional angles:", Get(aggregated, "all_angles", <<>>), 3)
                 \o Section("- Actionable insights:",
                            Get(aggregated, "all_actionable_insights", <<>>), 3)
            ELSE <<>>
    IN  IF (has_links /\ ~Joinable(themes)) \/ (has_research /\ ~Joinable(topics))
        THEN Raise
        ELSE Return(<<Line("ORIGINAL INSTRUCTIONS:\n", "instructions", ins)>>
                        \o link_part \o research_part)

\* the prompt that compose_linkedin_post builds around the context
FullPrompt(context_lines, example_posts) ==
    <<Line("{base_prompt}", "none", <<>>),
      Line("WRITING STYLE GUIDE:\n{style_analysis}", "none", <<>>),
      Line("COMPREHENSIVE CONTEXT:", "none", <<>>)>>
        \o context_lines
        \o <<Line("EXAMPLE POSTS (for style reference):", "none", <<>>)>>
        \o [i \in 1..Len(example_posts) |-> Line("Example {i}:\n", "post", example_posts[i])]
        \o <<Line("Generate the LinkedIn post now:", "none", <<>>)>>

\* PostCompositionAgent.compose_linkedin_post, for one outcome of
\* load_example_posts and one of the LLM call: the prompt that was built and
\* the str that is returned
compose_linkedin_post(context, examples, llm_raises) ==
    IF examples.raised THEN Raise
    ELSE LET comprehensive_context ==
                build_comprehensive_context(context.instructions, context.link_analysis,
                                            context.research_findings)
         IN  IF comprehensive_context.raised THEN Raise
             ELSE Return([full_prompt |-> FullPrompt(comprehensive_context.value,
                                                     examples.value),
                          generated_post |-> IF llm_raises
                                             THEN "Error generating LinkedIn post: {e}"
                                             ELSE "response"])

\* instructions given to the composer
ComposeInstructions == {Scenario1Text, W_Check}

\* what analyze_all_links returns for instructions with the one URL
\* https://example.com/article, the page extracted and the LLM answering llm
LinkAnalysisOf(llm) ==
    LET summaries == <<fetch_and_analyze_content(W_https_url, TRUE, ExtractOk(MinContentLen),
                                                 llm).value>>
        status == summaries[1]["status"]
    IN  FinalAnalysis(<<W_https_url>>, summaries,
                      IF status = JStr(Lit("success")) THEN 1 ELSE 0,
                      IF status \in {JStr(Lit("partial_success")), JStr(Lit("fallback"))}
                      THEN 1 ELSE 0,
                      IF status \in UsefulStatuses THEN 0 ELSE 1,
                      AllThemes(summaries), AllKeyPoints(summaries).value,
                      AllQuotes(summaries).value)

\* link analyses given to the composer: the one of instructions without
\* links; a successful one; one with more key points and quotes than are
\* shown; one of a page whose main_theme the LLM gave as a number; one
\* without a successful page
LinkAnalysisInputs ==
    {NoLinksAnalysis,
     LinkAnalysisOf(R_link1),
     LinkAnalysisOf(LLMText(
         <<LB, KV("main_theme", JStr(Lit("t1"))), COMMA,
           KV("key_points", JList(<<Lit("p1"), Lit("p2"), Lit("p3"), Lit("p4"), Lit("p5"),
                                    Lit("p6")>>)), COMMA,
           KV("relevant_quotes", JList(<<Lit("q1"), Lit("q2"), Lit("q3"), Lit("q4")>>)), RB>>,
         300, <<>>, <<>>)),
     LinkAnalysisOf(LLMText(<<LB, KV("main_theme", JNum(5)), RB>>, 30, <<>>, <<>>)),
     LinkAnalysisOf(R_prose)}

\* the findings of conduct_comprehensive_research for the topics and a list
\* of n insights of each kind
ResearchFindings(topics, n) ==
    LET insights == [i \in 1..n |-> Lit("insight")]
    IN  [topics_researched |-> topics,
         aggregated_insights |->
             [all_trends |-> insights, all_statistics |-> insights,
              all_implications |-> insights, all_angles |-> insights,
              all_actionable_insights |-> insights]]

\* research findings given to the composer: without topics, and with topics
ResearchInputs ==
    {ResearchFindings(<<>>, 0),
     ResearchFindings(<<JStr(Lit("AI technology"))>>, 0),
     ResearchFindings(<<JStr(Lit("AI technology")), JStr(Lit("Industry trends"))>>, 5)}

InitCompose ==
    /\ IdleSavers
    /\ program = "compose"
    /\ IdleLinks
    /\ IdleGen
    /\ IdleFeedback
    /\ llm_outcome = LLMEmpty
    /\ call = [fn |-> "none"]
    /\ result = Return(<<>>)

\* the composer loads its example posts
CallLoadExamplePosts ==
    /\ program = "compose"
    /\ call.fn = "none"
    /\ \E dir_exists \in BOOLEAN, n \in 0..MaxPosts :
        /\ dir_exists \/ n = 0
        /\ call' = [fn |-> "load_example_posts", available |-> n]
        /\ result' \in load_example_posts(dir_exists, Posts(n), DefaultCount)
    /\ UNCHANGED <<savers, program, llm_outcome, linkVars, genVars, fbVars>>

\* the single-agent generator selects its example posts
CallSelectRandomPosts ==
    /\ program = "compose"
    /\ call.fn = "none"
    /\ \E n \in 0..MaxPosts :
        /\ call' = [fn |-> "select_random_posts", available |-> n]
        /\ result' \in select_random_posts(Posts(n), DefaultCount)
    /\ UNCHANGED <<savers, program, llm_outcome, linkVars, genVars, fbVars>>

\* build_comprehensive_context is called
CallBuildContext ==
    /\ program = "compose"
    /\ call.fn = "none"
    /\ \E ins \in ComposeInstructions, link_analysis \in LinkAnalysisInputs,
          research_findings \in ResearchInputs :
        /\ call' = [fn |-> "build_comprehensive_context", instructions |-> ins,
                    link_analysis |-> link_analysis,
                    research_findings |-> research_findings]
        /\ result' = build_comprehensive_context(ins, link_analysis, research_findings)
    /\ UNCHANGED <<savers, program, llm_outcome, linkVars, genVars, fbVars>>

\* compose_linkedin_post is called
CallCompose ==
    /\ program = "compose"
    /\ call.fn = "none"
    /\ \E ins \in ComposeInstructions, link_analysis \in LinkAnalysisInputs,
          research_findings \in ResearchInputs, n \in 0..MaxPosts, llm_raises \in BOOLEAN :
        \E examples \in load_example_posts(TRUE, Posts(n), DefaultCount) :
            /\ call' = [fn |-> "compose_linkedin_post", instructions |-> ins,
                        link_analysis |-> link_analysis,
                        research_findings |-> research_findings, available |-> n]
            /\ result' = compose_linkedin_post(
                             [instructions |-> ins, link_analysis |-> link_analysis,
                              research_findings |-> research_findings],
                             examples, llm_raises)
    /\ UNCHANGED <<savers, program, llm_outcome, linkVars, genVars, fbVars>>

NextCompose ==
    CallLoadExamplePosts \/ CallSelectRandomPosts \/ CallBuildContext \/ CallCompose

SpecCompose == InitCompose /\ [][NextCompose]_vars

----------------------------------------------------------------------------
(* ResearchAgent.extract_topics *)

\* the tokens of a JSON array: '[', ']' and a value that is not an array
LBK == Tok("lbk", "", JNull)
RBK == Tok("rbk", "", JNull)
VAL(v) == Tok("val", "", v)

\* json.loads of an array: the parse of toks from index i
RECURSIVE ParseArray(_, _), ParseElements(_, _, _)
ParseArray(toks, i) ==
    IF i > Len(toks) \/ toks[i].t # "lbk" THEN ParseFail
    ELSE IF i + 1 <= Len(toks) /\ toks[i + 1].t = "rbk"
         THEN [ok |-> TRUE, val |-> <<>>, next |-> i + 2]
         ELSE ParseElements(toks, i + 1, <<>>)
ParseElements(toks, i, acc) ==
    IF i > Len(toks) THEN ParseFail
    ELSE LET e == IF toks[i].t = "val"
                  THEN [ok |-> TRUE, val |-> toks[i].v, next |-> i + 1]
                  ELSE IF toks[i].t = "lbk"
                  THEN LET sub == ParseArray(toks, i)
                       IN  [ok |-> sub.ok, val |-> JList(sub.val), next |-> sub.next]
                  ELSE [ok |-> FALSE, val |-> JNull, next |-> 0]
         IN  IF ~e.ok \/ e.next > Len(toks) THEN ParseFail
             ELSE IF toks[e.next].t = "rbk"
                  THEN [ok |-> TRUE, val |-> Append(acc, e.val), next |-> e.next + 1]
                  ELSE IF toks[e.next].t = "comma"
                  THEN ParseElements(toks, e.next + 1, Append(acc, e.val))
                  ELSE ParseFail

\* json.loads(json_match.group())
JsonLoadsArray(toks) ==
    LET p == ParseArray(toks, 1)
    IN  IF p.ok /\ p.next = Len(toks) + 1 THEN Return(p.val) ELSE Raise

\* re.search(r'\[.*\]', response_text, re.DOTALL)
SearchArray(toks) ==
    IF HasTok(toks, "lbk") /\ HasTok(toks, "rbk")
          /\ FirstTok(toks, "lbk") < LastTok(toks, "rbk")
    THEN [found |-> TRUE, group |-> SubSeq(toks, FirstTok(toks, "lbk"), LastTok(toks, "rbk"))]
    ELSE [found |-> FALSE, group |-> <<>>]

\* the limits of extract_topics
MinTopicLen == 3
MaxTopicLen == 100
MaxTopics == 5

\* the topics taken from the lines of a text that hold a marker; llm.bullets
\* holds what is left of each such line after the removal of its prefix
RECURSIVE TopicsFromLines(_)
TopicsFromLines(lines) ==
    IF lines = <<>> THEN <<>>
    ELSE LET topic == Head(lines)
         IN  (IF Truthy(topic) /\ topic.n > MinTopicLen
              THEN <<JBlob("topic", IF topic.n > MaxTopicLen THEN MaxTopicLen ELSE topic.n)>>
              ELSE <<>>) \o TopicsFromLines(Tail(lines))

\* the topics used when the text gives none, and when the call fails
DefaultTopics ==
    <<JStr(Lit("AI technology")), JStr(Lit("Industry trends")),
      JStr(Lit("Professional development"))>>
FallbackTopics ==
    <<JStr(Lit("Industry trends")), JStr(Lit("Technology developments")),
      JStr(Lit("Professional insights"))>>

\* the body of the try of extract_topics
ExtractTopicsBody(llm) ==
    IF llm.kind = "raises" THEN Raise
    ELSE LET json_match == SearchArray(llm.toks)
         IN  IF json_match.found
             THEN LET loaded == JsonLoadsArray(json_match.group)
                  IN  IF loaded.raised THEN Raise
                      ELSE Return(Take(loaded.value, MaxTopics))
             ELSE LET topics == TopicsFromLines(llm.bullets)
                  IN  Return(Take(IF topics = <<>> THEN DefaultTopics ELSE topics, MaxTopics))

\* ResearchAgent.extract_topics
extract_topics(llm) == TryExcept(ExtractTopicsBody(llm), Return(FallbackTopics))

\* a topic of a response
Topic(name) == VAL(JStr(Lit(name)))

\* the responses to the topic extraction prompt: every text of at most
\* MaxRespLen tokens, the array of three topics that the prompt asks for, an
\* array of six topics, and texts without an array whose lines hold markers
TopicResponses ==
    {LLMText(toks, 100, <<>>, <<>>) :
        toks \in UNION {[1..n -> {LBK, RBK, COMMA, PROSE, Topic("t1")}] :
                           n \in 0..MaxRespLen}}
      \cup {LLMText(<<PROSE, LBK, Topic("t1"), COMMA, Topic("t2"), COMMA, Topic("t3"), RBK>>,
                    100, <<>>, <<>>),
            LLMText(<<LBK, Topic("t1"), COMMA, Topic("t2"), COMMA, Topic("t3"), COMMA,
                      Topic("t4"), COMMA, Topic("t5"), COMMA, Topic("t6"), RBK>>,
                    150, <<>>, <<>>),
            LLMText(<<PROSE>>, 100, <<JBlob("topic", 3)>>, <<>>),
            LLMText(<<PROSE>>, 100, <<JBlob("topic", 0), JBlob("topic", 4)>>, <<>>),
            LLMText(<<PROSE>>, 100, [i \in 1..6 |-> JBlob("topic", 95 + 2 * i)], <<>>)}

TopicOutcomes == {LLMRaises, LLMEmpty} \cup TopicResponses

InitTopics ==
    /\ IdleSavers
    /\ program = "extract_topics"
    /\ IdleLinks
    /\ IdleGen
    /\ IdleFeedback
    /\ llm_outcome \in TopicOutcomes
    /\ call = [fn |-> "none"]
    /\ result = Return(<<>>)

\* extract_topics is called
CallExtractTopics ==
    /\ program = "extract_topics"
    /\ call.fn = "none"
    /\ call' = [fn |-> "extract_topics"]
    /\ result' = extract_topics(llm_outcome)
    /\ UNCHANGED <<savers, program, llm_outcome, linkVars, genVars, fbVars>>

NextTopics == CallExtractTopics

SpecTopics == InitTopics /\ [][NextTopics]_vars

----------------------------------------------------------------------------
(* ResearchAgent.conduct_comprehensive_research *)

\* conduct_comprehensive_research is given at most this many topics
MaxResearchTopics == 2

\* for topic in topics: research_results[topic] = self.research_topic(...):
\* research_results after the loop, llms[i] being the outcome of the LLM call
\* made for topics[i]
RECURSIVE ResearchLoop(_, _, _)
ResearchLoop(topics, llms, research_results) ==
    IF topics = <<>> THEN research_results
    ELSE ResearchLoop(Tail(topics), Tail(llms),
                      Update(research_results,
                             Head(topics) :> research_topic(Head(topics), Head(llms)).value))

\* the loop over research_results.items() for one list of
\* aggregated_insights: the records without 'error' extend it with their
\* field; keys are the keys of research_results in the order of the dict
RECURSIVE ExtendInsights(_, _, _, _)
ExtendInsights(keys, research_results, field, acc) ==
    IF keys = <<>> THEN Return(acc)
    ELSE LET research == research_results[Head(keys)]
         IN  IF "error" \in DOMAIN research
             THEN ExtendInsights(Tail(keys), research_results, field, acc)
             ELSE LET items == Iterate(Get(research, field, JList(<<>>)))
                  IN  IF items.raised THEN Raise
                      ELSE ExtendInsights(Tail(keys), research_results, field,
                                          acc \o items.value)

\* the lists of aggregated_insights and the field of a record that fills each
AggregatedFrom ==
    [all_trends |-> "current_trends", all_statistics |-> "key_statistics",
     all_implications |-> "industry_implications", all_angles |-> "linkedin_angles",
     all_actionable_insights |-> "actionable_insights"]

\* what conduct_comprehensive_research returns when there is no topic
NoTopicsResearch ==
    [topics_researched |-> <<>>,
     research_results |-> EmptyDict,
     aggregated_insights |-> [k \in DOMAIN AggregatedFrom |-> <<>>],
     summary |-> Lit("No specific topics identified for additional research.")]

\* conduct_comprehensive_research after extract_topics has returned topics
conduct_comprehensive_research(topics, llms) ==
    IF topics = <<>> THEN Return(NoTopicsResearch)
    ELSE LET research_results == ResearchLoop(topics, llms, EmptyDict)
             keys == DictFromKeys(topics, {})
             insights == [k \in DOMAIN AggregatedFrom |->
                             ExtendInsights(keys, research_results, AggregatedFrom[k], <<>>)]
         IN  IF \E k \in DOMAIN AggregatedFrom : insights[k].raised THEN Raise
             ELSE LET aggregated_insights ==
                          [k \in DOMAIN AggregatedFrom |-> insights[k].value]
                  IN  Return([topics_researched |-> topics,
                              research_results |-> research_results,
                              aggregated_insights |-> aggregated_insights,
                              summary |->
                                  PyStr("Conducted research on {} topics: {}. Generated {} trends, {} statistics, and {} LinkedIn angles.",
                                        <<Len(topics), topics,
                                          Len(aggregated_insights["all_trends"]),
                                          Len(aggregated_insights["all_statistics"]),
                                          Len(aggregated_insights["all_angles"])>>)])

\* the topics given to the research
ResearchTopics == {Lit("AI technology"), Lit("Industry trends")}
TopicLists == UNION {[1..n -> ResearchTopics] : n \in 0..MaxResearchTopics}

\* '{"current_trends": ["tr1"], "linkedin_angles": ["a1", "a2"]}'
R_research ==
    LLMText(<<PROSE, LB, KV("current_trends", JList(<<Lit("tr1")>>)), COMMA,
              KV("linkedin_angles", JList(<<Lit("a1"), Lit("a2")>>)), RB>>, 80, <<>>, <<>>)
\* '{"error": "no data", "current_trends": ["tr2"]}'
R_research_error ==
    LLMText(<<LB, KV("error", JStr(Lit("no data"))), COMMA,
              KV("current_trends", JList(<<Lit("tr2")>>)), RB>>, 50, <<>>, <<>>)
\* '{"current_trends": null}'
R_research_null == LLMText(<<LB, KV("current_trends", JNull), RB>>, 30, <<>>, <<>>)
\* '{"current_trends": [...' : a brace span that is not JSON
R_research_cut == LLMText(<<LB, PROSE, RB>>, 30, <<>>, <<>>)

\* what the LLM call of one topic meets
ResearchOutcomes ==
    {LLMRaises, R_prose, R_research_cut, R_research, R_research_error, R_research_null}

\* what the web search of one topic meets
SearchOutcomes == {"raises", "no_results", "results"}

InitResearch ==
    /\ IdleSavers
    /\ program = "conduct_comprehensive_research"
    /\ IdleLinks
    /\ IdleGen
    /\ IdleFeedback
    /\ llm_outcome = LLMEmpty
    /\ call = [fn |-> "none"]
    /\ result = Return(<<>>)

\* conduct_comprehensive_research is called; the call keeps the prompt sent
\* for every topic and research_results as the loop over the topics left it
CallConductResearch ==
    /\ program = "conduct_comprehensive_research"
    /\ call.fn = "none"
    /\ \E topics \in TopicLists, has_web_search \in BOOLEAN :
        \E llms \in [1..Len(topics) -> ResearchOutcomes],
           searches \in [1..Len(topics) -> SearchOutcomes] :
            /\ has_web_search \/ \A i \in 1..Len(topics) : searches[i] = "no_results"
            /\ call' = [fn |-> "conduct_comprehensive_research",
                        topics |-> topics, llms |-> llms,
                        has_web_search |-> has_web_search, searches |-> searches,
                        prompts |-> [i \in 1..Len(topics) |->
                                        ResearchPrompt(has_web_search, searches[i])],
                        research_results |-> ResearchLoop(topics, llms, EmptyDict)]
            /\ result' = conduct_comprehensive_research(topics, llms)
    /\ UNCHANGED <<savers, program, llm_outcome, linkVars, genVars, fbVars>>

NextResearch == CallConductResearch

SpecResearch == InitResearch /\ [][NextResearch]_vars

----------------------------------------------------------------------------
(* Two generator processes that save to the same workflow_history.json *)

\* a load of the history that starts from an empty list whatever the file holds
LoadHistoryIgnoresFile(file, read) == Return(<<>>)

\* history = [], then json.load(f) when the file exists: the list that
\* save_workflow_metadata appends to
LoadHistory(file, read) ==
    IF file.state = "missing" THEN Return(<<>>)
    ELSE IF read = "fails" \/ file.state = "corrupt" THEN Raise
    ELSE Return(file.records)

\* the record that process p saves: datetime.now() differs from one process
\* to the other, the sequential workflow leaves workflow_id at None
RunRecord(p) ==
    Update(Metadata(None, [instructions |-> Scenario1Text], ComposedPost(1, FALSE)),
           [timestamp |-> p])

\* the other process
Other(p) == CHOOSE q \in Savers : q # p

\* process p reads the history and appends its record to its list; an
\* exception ends the save
ReadHistory(p) ==
    /\ program = "two_generators"
    /\ savers[p].pc = "start"
    /\ \E read \in {"ok", "fails"} :
        LET loaded == LoadHistory(workflow_history_file, read)
        IN  savers' =
                [savers EXCEPT ![p] =
                    IF loaded.raised
                    THEN [@ EXCEPT !.pc = "done", !.status = "failed"]
                    ELSE [@ EXCEPT !.pc = "open",
                                   !.history = Append(loaded.value, RunRecord(p)),
                                   !.after_other = savers[Other(p)].pc = "done"]]
    /\ UNCHANGED <<program, linkVars, parseVars, genVars, fbVars>>

\* open(workflow_history_file, 'w'): the file is emptied, or the open raises
\* and the save ends
TruncateOpen(p) ==
    /\ program = "two_generators"
    /\ savers[p].pc = "open"
    /\ \E opened \in BOOLEAN :
        IF opened
        THEN /\ workflow_history_file' = Corrupt
             /\ savers' =
                   [q \in Savers |->
                       IF q = p THEN [savers[q] EXCEPT !.pc = "dump"]
                       ELSE IF savers[q].pc = "dump" THEN [savers[q] EXCEPT !.mixed = TRUE]
                       ELSE savers[q]]
        ELSE /\ savers' = [savers EXCEPT ![p] = [@ EXCEPT !.pc = "done", !.status = "failed"]]
             /\ UNCHANGED workflow_history_file
    /\ UNCHANGED <<program, linkVars, parseVars, ownVars, fbVars>>

\* json.dump(history, f) and the close of the file: the file holds the list
\* of process p, or the dump raises and leaves a file that is no JSON.  When
\* the other process wrote to the file while p had it open, the bytes of the
\* two lists mix and the file may be no JSON either
Dump(p) ==
    /\ program = "two_generators"
    /\ savers[p].pc = "dump"
    /\ \E dumped \in BOOLEAN :
        /\ workflow_history_file' \in
              IF ~dumped THEN {Corrupt}
              ELSE IF savers[p].mixed \/ savers[Other(p)].pc = "dump"
              THEN {HistoryList(savers[p].history), Corrupt}
              ELSE {HistoryList(savers[p].history)}
        /\ savers' =
              [q \in Savers |->
                  IF q = p
                  THEN [savers[q] EXCEPT !.pc = "done",
                                         !.status = IF dumped THEN "saved" ELSE "failed"]
                  ELSE IF savers[q].pc = "dump" THEN [savers[q] EXCEPT !.mixed = TRUE]
                  ELSE savers[q]]
    /\ UNCHANGED <<program, linkVars, parseVars, ownVars, fbVars>>

\* the file that the two processes find: none, an empty list, the record of
\* an earlier run, or a file that json.load rejects
EarlierRecord ==
    Update(Metadata(None, [instructions |-> W_Check], ComposedPost(1, FALSE)),
           [timestamp |-> 0])

InitSavers ==
    /\ program = "two_generators"
    /\ IdleLinks
    /\ IdleParse
    /\ IdleProcess
    /\ IdleFeedback
    /\ workflow_history_file \in
          {Missing, HistoryList(<<>>), HistoryList(<<EarlierRecord>>), Corrupt}
    /\ IdleSavers

NextSavers == \E p \in Savers : ReadHistory(p) \/ TruncateOpen(p) \/ Dump(p)

SpecSavers == InitSavers /\ [][NextSavers]_vars

----------------------------------------------------------------------------
(* Properties *)

\* s is a prefix of t
IsPrefix(s, t) == Len(s) <= Len(t) /\ SubSeq(t, 1, Len(s)) = s

\* no two entries of s are equal
NoDuplicates(s) == \A i, j \in 1..Len(s) : i # j => s[i] # s[j]

\* the index of the first occurrence of x in s
FirstIndex(s, x) == CHOOSE i \in 1..Len(s) : s[i] = x /\ \A j \in 1..(i - 1) : s[j] # x

\* s holds the distinct entries of t, in the order of their first occurrence
FirstSeenOrder(s, t) ==
    /\ NoDuplicates(s)
    /\ Range(s) = Range(t)
    /\ \A i, j \in 1..Len(s) : i < j => FirstIndex(t, s[i]) < FirstIndex(t, s[j])

\* the posts that the composition of the n-th execution can return
ComposedPosts(n) == {ComposedPost(n, llm_raises) : llm_raises \in BOOLEAN}

\* C1: in every run of execute_sequential_workflow the stages start in the
\* order link_analysis, topic_research, composition; topic research starts
\* only after analyze_all_links has returned, composition only after
\* conduct_comprehensive_research has returned; at most one stage is active;
\* composition is given the link analysis and the research findings made in
\* this same run; the run is done only after the three stages
C1_StagesInOrder ==
    program = "linkedin_multi_agent_generator" =>
        /\ Cardinality(active) <= 1
        /\ IsPrefix(stage_log, Stages)
        /\ ("topic_research" \in Range(stage_log) =>
               /\ "link_analysis" \notin active
               /\ "link_analysis" \in DOMAIN workflow_context
               /\ workflow_context["link_analysis"] = StageResult("link_analysis", seq_calls))
        /\ ("composition" \in Range(stage_log) =>
               /\ "topic_research" \notin active
               /\ workflow_context["research_findings"]
                     = StageResult("topic_research", seq_calls)
               /\ composition_context =
                     [instructions |-> gen_instructions,
                      link_analysis |-> StageResult("link_analysis", seq_calls),
                      research_findings |-> StageResult("topic_research", seq_calls)])
        /\ (gpc = "returned" =>
               /\ stage_log = Stages
               /\ active = {}
               /\ outcome.post \in ComposedPosts(seq_calls))

\* the composition of a second run is active, after a first run left results
C1_Witness ==
    /\ program = "linkedin_multi_agent_generator"
    /\ "composition" \in active
    /\ seq_calls = 2
    /\ composition_context.research_findings = StageResult("topic_research", 2)

\* C2: within one call of generate_post, no stage is started more than once,
\* and once a stage has raised the call ends by raising to its caller
C2_StageFailureAborts ==
    program = "linkedin_multi_agent_generator" =>
        /\ \A stage \in Range(Stages) : stage_runs[stage] <= 1
        /\ (stage_raised => outcome.kind = "raised")

\* C3: a failure of save_workflow_metadata (history unreadable or corrupt,
\* failed write) leaves the call returning the composed post; a failed write
\* of the feedback text or JSON file does not make the feedback script exit
\* with an error
C3_SaveFailureDoesNotAbort ==
    /\ (program = "linkedin_multi_agent_generator" /\ save_status = "failed") =>
           /\ outcome.kind = "returned"
           /\ outcome.post \in ComposedPosts(seq_calls)
    /\ (program = "linkedin_feedback_critique"
           /\ "failed" \in {feedback_files.text, feedback_files.json}) =>
           /\ exit_code # 1
           /\ fpc \in {"save_json", "final_summary", "exited"}

\* a second run found a history file that json.load rejects, its save failed,
\* and generate_post returned
C3_Witness ==
    /\ program = "linkedin_multi_agent_generator"
    /\ save_status = "failed"
    /\ workflow_history_file.state = "corrupt"
    /\ calls = 2
    /\ gpc = "returned"

\* C4: no step removes, reorders or alters the records of
\* workflow_history.json, and a save that succeeds adds exactly one record at
\* the end
C4_HistoryAppendOnly ==
    [][/\ IsPrefix(workflow_history_file.records, workflow_history_file'.records)
       /\ (workflow_history_file.state = "list" => workflow_history_file'.state = "list")
       /\ (gpc = "save_workflow_metadata" /\ save_status' = "saved" =>
              Len(workflow_history_file'.records)
                  = Len(workflow_history_file.records) + 1)]_vars

\* C5: every record of the history has a workflow_id that is not None
C5_RecordsCarryRunId ==
    \A i \in 1..Len(workflow_history_file.records) :
        workflow_history_file.records[i].workflow_id # None

\* C6: detect_links returns a list without two equal entries, whose entries
\* are in the order in which the cleaned candidates (pattern by pattern, then
\* by position) first show them, and a second call on the same text returns
\* the same list
C6_DetectLinksUniqueOrdered ==
    lpc \in {"analyze", "returned", "raised"} =>
        /\ FirstSeenOrder(urls, CleanUrls(Candidates(instructions)))
        /\ detect_links(instructions) = urls

\* a text in which two patterns give the same URL, and that holds two URLs
C6_Witness ==
    /\ lpc \in {"analyze", "returned", "raised"}
    /\ Len(urls) >= 2
    /\ Len(CleanUrls(Candidates(instructions))) > Len(urls)

\* C7: for "Check https://example.com/ai for trends" detect_links returns
\* exactly ["https://example.com/ai"]
C7_Scenario1 ==
    (instructions = Scenario1Text /\ lpc \in {"analyze", "returned", "raised"}) =>
        urls = <<W_https_url>>

\* the text of scenario 1 went through detect_links, and the explicit-URL
\* pattern and the bare-domain pattern both matched
C7_Witness ==
    /\ instructions = Scenario1Text
    /\ lpc \in {"analyze", "returned", "raised"}
    /\ Len(FindAll(1, instructions)) = 1
    /\ Len(FindAll(3, instructions)) = 1

\* the objects that are well-formed JSON and stand somewhere in a response
WellFormedObjectIn(toks, obj) ==
    \E i, j \in 1..Len(toks) :
        /\ i <= j
        /\ ~JsonLoads(SubSeq(toks, i, j)).raised
        /\ JsonLoads(SubSeq(toks, i, j)).value = obj

HoldsWellFormedObject(toks) ==
    \E i, j \in 1..Len(toks) : i <= j /\ ~JsonLoads(SubSeq(toks, i, j)).raised

\* C8: when the response holds a well-formed JSON object, with or without
\* text around it, the analysis returns that object, unchanged
C8_ObjectReturnedUnchanged ==
    (/\ call.fn \in {"analyze_feedback", "research_topic"}
     /\ llm_outcome.kind = "text"
     /\ HoldsWellFormedObject(llm_outcome.toks)) =>
        /\ ~result.raised
        /\ WellFormedObjectIn(llm_outcome.toks, result.value)

\* the list fields of the record of a research
ResearchListFields ==
    {"current_trends", "key_statistics", "industry_implications", "expert_perspectives",
     "linkedin_angles", "supporting_arguments", "potential_controversies",
     "actionable_insights"}

\* the response holds nothing that json.loads accepts
ParseFails(llm) ==
    \/ llm.kind # "text"
    \/ ~SearchObject(llm.toks).found
    \/ JsonLoads(SearchObject(llm.toks).group).raised

\* C9: the four feedback analyses, the analysis of one URL and the research
\* of one topic never raise, and on a response without a brace pair, with a
\* brace span that is not JSON, or on a failed LLM call they return their
\* fallback structure
C9_ParsingNeverRaises ==
    call.fn # "none" =>
        /\ ~result.raised
        /\ (call.fn = "analyze_feedback" /\ ParseFails(llm_outcome)) =>
               /\ DOMAIN result.value = {"analysis_type", "status", "raw_content", "note"}
               /\ result.value["analysis_type"] = JStr(Lit(call.analysis_type))
               /\ result.value["status"] = JStr(Lit("partial"))
               /\ result.value["raw_content"].ty = "str"
        /\ call.fn = "fetch_and_analyze_content" =>
               /\ result.value["url"] = JStr(Txt(call.url))
               /\ result.value["status"] \in
                     {JStr(Lit("success")), JStr(Lit("partial_success")),
                      JStr(Lit("failed")), JStr(Lit("fallback"))}
               /\ ParseFails(llm_outcome) => result.value["status"] # JStr(Lit("success"))
               /\ ParseFails(llm_outcome) => result.value["key_points"].ty = "list"
        /\ (call.fn = "research_topic" /\ ParseFails(llm_outcome)) =>
               /\ result.value["topic"] = JStr(call.topic)
               /\ \A field \in ResearchListFields : result.value[field].ty = "list"

\* a feedback analysis was given a brace span that is not JSON
C9_Witness ==
    /\ call.fn = "analyze_feedback"
    /\ llm_outcome.kind = "text"
    /\ llm_outcome.toks = TrailingBraceResponse
    /\ result.value["status"] = JStr(Lit("partial"))

\* C10: the aggregate lists of the final link analysis hold no duplicate and
\* keep the first-seen order of the entries of the per-URL records
C10_AggregatesDeduplicated ==
    (lpc = "returned" /\ urls # <<>>) =>
        /\ NoDuplicates(final_analysis.all_key_points)
        /\ NoDuplicates(final_analysis.all_quotes)
        /\ FirstSeenOrder(final_analysis.aggregated_themes, AllThemes(content_summaries))

\* the sub-score that analysis number i carries, 5 when it carries none, in
\* tenths
SubScore(i) ==
    IF ScoreKeys[i] \in DOMAIN analyses[i]
    THEN Tenths(analyses[i][ScoreKeys[i]])
    ELSE 50

\* a report has been returned by generate_comprehensive_feedback
ReportReturned == program = "generate_comprehensive_feedback" /\ fpc = "returned"

\* C11: overall_score is the mean of the four sub-scores, a missing one
\* counting as 5, rounded to one decimal (the tenth nearest to the mean), and
\* grade is the threshold mapping of the mean: >= 9 A, >= 8 B+, >= 7 B,
\* >= 6 C+, >= 5 C, otherwise D; the sub-scores 9, 7, 8, 6 give 7.5 and B
C11_OverallScoreIsMean ==
    ReportReturned =>
        LET total == SubScore(1) + SubScore(2) + SubScore(3) + SubScore(4)
            assessment == feedback.value.overall_assessment
        IN  /\ 4 * assessment.overall_score - total \in -2..2
            /\ assessment.grade =
                  IF total >= 360 THEN "A"
                  ELSE IF total >= 320 THEN "B+"
                  ELSE IF total >= 280 THEN "B"
                  ELSE IF total >= 240 THEN "C+"
                  ELSE IF total >= 200 THEN "C"
                  ELSE "D"
            /\ (<<SubScore(1), SubScore(2), SubScore(3), SubScore(4)>> = <<90, 70, 80, 60>> =>
                   assessment.overall_score = 75 /\ assessment.grade = "B")

\* the report of scenario 3 has been returned
C11_Witness ==
    /\ ReportReturned
    /\ \A i \in 1..4 : ScoreKeys[i] \in DOMAIN analyses[i]
    /\ <<SubScore(1), SubScore(2), SubScore(3), SubScore(4)>> = <<90, 70, 80, 60>>
    /\ feedback.value.overall_assessment.overall_score = 75

\* C12: the overall_score of every report lies in [1, 10] (10 to 100 tenths)
C12_OverallScoreInRange ==
    ReportReturned => feedback.value.overall_assessment.overall_score \in 10..100

\* the places from which _compile_recommendations takes items: analysis i,
\* field k, item m
RecPlaces ==
    {p \in (1..Len(analyses)) \X (1..Len(RecKeys)) \X (1..2) :
        /\ RecKeys[p[2]] \in DOMAIN analyses[p[1]]
        /\ analyses[p[1]][RecKeys[p[2]]].ty = "list"
        /\ p[3] <= Len(analyses[p[1]][RecKeys[p[2]]].l)}

RecAt(p) == analyses[p[1]][RecKeys[p[2]]].l[p[3]]

\* place p comes before place q: analysis order, then field order
PlaceBefore(p, q) ==
    \/ p[1] < q[1]
    \/ p[1] = q[1] /\ p[2] < q[2]
    \/ p[1] = q[1] /\ p[2] = q[2] /\ p[3] < q[3]

\* the first place that holds x
FirstPlace(x) ==
    CHOOSE p \in RecPlaces : RecAt(p) = x /\ \A q \in RecPlaces : PlaceBefore(q, p) => RecAt(q) # x

\* C13: the recommendations of a report are at most 8 strings without
\* duplicates, each among the first 2 items of a recommendation list field of
\* an analysis, in analysis order then field order of their first occurrence;
\* a string among those items is left out only when 8 come before it
C13_RecommendationsCompiled ==
    ReportReturned =>
        LET recs == feedback.value.recommendations
        IN  /\ Len(recs) <= 8
            /\ NoDuplicates(recs)
            /\ \A j \in 1..Len(recs) :
                  recs[j].ty = "str" /\ \E p \in RecPlaces : RecAt(p) = recs[j]
            /\ \A i, j \in 1..Len(recs) :
                  i < j => PlaceBefore(FirstPlace(recs[i]), FirstPlace(recs[j]))
            /\ \A p \in RecPlaces :
                  RecAt(p).ty = "str" /\ RecAt(p) \notin Range(recs) =>
                      Len(recs) = 8 /\ PlaceBefore(FirstPlace(recs[8]), p)

\* a report whose analyses offer more than 8 distinct strings, one of them
\* twice, and an item that is no string
C13_Witness ==
    /\ ReportReturned
    /\ Len(feedback.value.recommendations) = 8
    /\ \E p \in RecPlaces : RecAt(p).ty = "str" /\ RecAt(p) \notin Range(feedback.value.recommendations)
    /\ \E p, q \in RecPlaces : p # q /\ RecAt(p) = RecAt(q)
    /\ \E p \in RecPlaces : RecAt(p).ty # "str"

\* C14: example-post sampling returns k distinct posts of the available ones,
\* with min(3, available) <= k <= min(4, available), and does not raise
C14_SamplingWithinBounds ==
    (program = "compose" /\ call.fn \in {"load_example_posts", "select_random_posts"}) =>
        /\ ~result.raised
        /\ LET k == Len(result.value)
               available == call.available
           IN  /\ k >= (IF available < 3 THEN available ELSE 3)
               /\ k <= (IF available < 4 THEN available ELSE 4)
               /\ NoDuplicates(result.value)
               /\ Range(result.value) \subseteq 1..available

\* the text holds the instructions ins, unmodified
HoldsInstructions(text, ins) ==
    \E i \in 1..Len(text) : text[i].kind = "instructions" /\ text[i].v = ins

\* C15: build_comprehensive_context returns a text that holds the original
\* instructions unmodified, whatever the link analysis and the research
\* findings are, and a composition call builds a prompt that holds them
C15_PromptHoldsInstructions ==
    program = "compose" =>
        /\ (call.fn = "build_comprehensive_context" =>
               ~result.raised /\ HoldsInstructions(result.value, call.instructions))
        /\ (call.fn = "compose_linkedin_post" =>
               ~result.raised
                   /\ HoldsInstructions(result.value.full_prompt, call.instructions))

\* C16: extract_topics returns a list of at least 1 and at most 5 topics, for
\* every outcome of the LLM call
C16_OneToFiveTopics ==
    (program = "extract_topics" /\ call.fn = "extract_topics") =>
        ~result.raised /\ Len(result.value) \in 1..5

\* C17: a generator exists only when OPENAI_API_KEY was present, so that the
\* constructor raises without it; and a call of generate_post that finds
\* input/instructions.txt missing or empty raises to its caller, with no
\* stage started and no call of save_workflow_metadata, and leaves the
\* history file and the log of the stages as they were
C17_ConfigurationErrorsFatal ==
    /\ [](program = "linkedin_multi_agent_generator" =>
            /\ (~environment.openai_api_key => gpc \in {"new", "init_failed"})
            /\ (environment.instructions_file \in {"missing", "empty"} =>
                   /\ gpc \in {"raised", "new", "idle", "init_failed"}
                   /\ outcome.kind = "raised"
                   /\ \A stage \in Range(Stages) : stage_runs[stage] = 0
                   /\ active = {}
                   /\ save_status = "none"))
    /\ [][(program = "linkedin_multi_agent_generator"
             /\ environment'.instructions_file \in {"missing", "empty"}) =>
            UNCHANGED <<workflow_history_file, stage_log, seq_calls, workflow_context>>]_vars

\* a second call of generate_post found the instructions empty and raised,
\* after a first call that wrote its record
C17_Witness ==
    /\ program = "linkedin_multi_agent_generator"
    /\ environment.openai_api_key
    /\ environment.instructions_file = "empty"
    /\ gpc = "raised"
    /\ calls = 2
    /\ Len(workflow_history_file.records) = 1

\* a file among the three inputs is missing or cannot be read
SomeFileMissing == \E key \in ContentKeys : environment[key] \in {"missing", "unreadable"}

\* C18 as stated: with a missing or unreadable file among the three inputs,
\* load_content_files gives the empty string in its place and main goes on
\* to generate_comprehensive_feedback
C18_MissingFileNotFatal ==
    [][(program = "linkedin_feedback_critique" /\ fpc = "load_content_files"
          /\ SomeFileMissing) =>
         /\ fpc' = "generate_comprehensive_feedback"
         /\ DOMAIN content' = ContentKeys
         /\ \A key \in ContentKeys :
               environment[key] \in {"missing", "unreadable"} => content'[key] = ""]_vars

\* C18, amended: load_content_files does not raise and gives the empty string
\* in the place of every missing or unreadable file; main goes on to
\* generate_comprehensive_feedback whenever the generated post holds a text,
\* whatever the state of the instructions and of the style guide, and exits
\* with code 1 when the generated post is missing, unreadable or empty
C18_OnlyGeneratedPostRequired ==
    [][(program = "linkedin_feedback_critique" /\ fpc = "load_content_files") =>
         /\ DOMAIN content' = ContentKeys
         /\ \A key \in ContentKeys :
               content'[key] = IF environment[key] = "text" THEN "text" ELSE ""
         /\ IF environment["generated_post"] = "text"
            THEN fpc' = "generate_comprehensive_feedback" /\ exit_code' = exit_code
            ELSE fpc' = "exited" /\ exit_code' = 1]_vars

\* main has gone on to the analyses without instructions and with a style
\* guide that could not be read
C18_Witness ==
    /\ program = "linkedin_feedback_critique"
    /\ fpc = "generate_comprehensive_feedback"
    /\ environment["instructions"] = "missing"
    /\ environment["style_guide"] = "unreadable"
    /\ content["instructions"] = ""
    /\ content["style_guide"] = ""
    /\ content["generated_post"] = "text"

\* the fields of the record of one URL
RecordFields ==
    {"url", "status", "title", "main_theme", "key_points", "relevant_quotes", "summary"}

\* the extraction gave a content of at least 50 characters
ExtractionSucceeded ==
    /\ call.has_tavily
    /\ call.extraction.kind = "ok"
    /\ call.extraction.content_len >= 50

\* a JSON object is parsed from the response of the LLM
ObjectParsed ==
    /\ llm_outcome.kind = "text"
    /\ SearchObject(llm_outcome.toks).found
    /\ ~JsonLoads(SearchObject(llm_outcome.toks).group).raised

\* C19: fetch_and_analyze_content does not raise and returns a record that
\* holds every field of the record of a URL, for this URL; the status is
\* 'fallback' whenever the extraction did not give 50 characters, and content
\* of 50 characters or more is analysed
C19_CompleteRecordNeverRaises ==
    (program = "analysis" /\ call.fn = "fetch_and_analyze_content") =>
        /\ ~result.raised
        /\ RecordFields \subseteq DOMAIN result.value
        /\ result.value["url"] = JStr(Txt(call.url))
        /\ (~ExtractionSucceeded => result.value["status"] = JStr(Lit("fallback")))
        /\ (ExtractionSucceeded /\ llm_outcome.kind = "text" =>
               result.value["status"] # JStr(Lit("fallback")))

\* C20 as stated: 'success' exactly when the extraction succeeded and a JSON
\* object was parsed; 'partial_success' whenever the extraction succeeded
\* and no JSON object could be parsed; 'fallback' exactly when the
\* extraction failed
C20_StatusClassification ==
    (program = "analysis" /\ call.fn = "fetch_and_analyze_content") =>
        LET status == result.value["status"]
        IN  /\ status = JStr(Lit("success")) <=> (ExtractionSucceeded /\ ObjectParsed)
            /\ (ExtractionSucceeded /\ ~ObjectParsed => status = JStr(Lit("partial_success")))
            /\ status = JStr(Lit("fallback")) <=> ~ExtractionSucceeded

\* C20, amended: 'success' exactly when the extraction succeeded and a JSON
\* object was parsed; when the extraction succeeded and the LLM gave a text
\* from which no object could be parsed, 'partial_success' if the text is
\* longer than 200 characters and 'failed' if not; 'fallback' exactly when
\* the extraction failed, the LLM call raised or the LLM gave no response
C20_StatusByResponseLength ==
    (program = "analysis" /\ call.fn = "fetch_and_analyze_content") =>
        LET status == result.value["status"]
            salvaged == ExtractionSucceeded /\ llm_outcome.kind = "text" /\ ~ObjectParsed
        IN  /\ status = JStr(Lit("success")) <=> (ExtractionSucceeded /\ ObjectParsed)
            /\ status = JStr(Lit("partial_success")) <=> (salvaged /\ llm_outcome.len > 200)
            /\ status = JStr(Lit("failed")) <=> (salvaged /\ llm_outcome.len <= 200)
            /\ status = JStr(Lit("fallback")) <=>
                  (~ExtractionSucceeded \/ llm_outcome.kind \in {"raises", "empty"})

\* a text of 200 characters without an object, after an extraction of 50
\* characters, gave a record with the status 'failed'
C20_Witness ==
    /\ program = "analysis"
    /\ call.fn = "fetch_and_analyze_content"
    /\ call.has_tavily
    /\ call.extraction = ExtractOk(50)
    /\ llm_outcome.kind = "text"
    /\ llm_outcome.len = 200
    /\ ~SearchObject(llm_outcome.toks).found
    /\ result.value["status"] = JStr(Lit("failed"))

\* detect_links has returned its list
LinksDetected == program = "analyze_all_links" /\ lpc \in {"analyze", "returned", "raised"}

\* C21: detect_links discards exactly the candidates that, normalized, are
\* shorter than 10 characters or hold no dot; a normalized candidate of 10
\* characters that holds a dot is kept
C21_KeepsTenCharacters ==
    LinksDetected =>
        Range(urls) = {url \in {NormalizeUrl(c) : c \in Range(Candidates(instructions))} :
                          InSeq(".", url) /\ Len(url) >= 10}

\* C22: the extracted content that fetch_and_analyze_content gives to the
\* LLM, whose length the record holds as content_length, is never longer
\* than 8000 characters
C22_ContentAtMostMaximum ==
    (program = "analysis" /\ call.fn = "fetch_and_analyze_content"
       /\ ExtractionSucceeded /\ llm_outcome.kind = "text") =>
        /\ "content_length" \in DOMAIN result.value
        /\ result.value["content_length"].n <= 8000

\* C23: the fallback that analyze_feedback returns when no analysis can be
\* parsed has the status 'partial' and a raw_content of at most 500
\* characters
C23_RawContentAtMost500 ==
    (program = "analysis" /\ call.fn = "analyze_feedback" /\ ParseFails(llm_outcome)) =>
        /\ ~result.raised
        /\ {"status", "raw_content"} \subseteq DOMAIN result.value
        /\ result.value["status"] = JStr(Lit("partial"))
        /\ result.value["raw_content"].n <= 500

\* the LLM call of a research raises, or the brace span of its response is
\* not JSON
ResearchFails(llm) ==
    \/ llm.kind = "raises"
    \/ /\ llm.kind = "text"
       /\ SearchObject(llm.toks).found
       /\ JsonLoads(SearchObject(llm.toks).group).raised

\* the index of the last occurrence of x in s
LastIndex(s, x) == CHOOSE i \in 1..Len(s) : s[i] = x /\ \A j \in (i + 1)..Len(s) : s[j] # x

\* the topics whose research did not fail, in the order of research_results
ResearchedTopics ==
    SelectSeq(DictFromKeys(call.topics, {}),
              LAMBDA topic : ~ResearchFails(call.llms[LastIndex(call.topics, topic)]))

\* C24: research_topic never raises; when the LLM call fails or the brace
\* span is not JSON its record holds the topic, eight empty lists and an
\* 'error' field; conduct_comprehensive_research keeps that record in
\* research_results and aggregated_insights holds nothing of it; when only
\* the web search fails the knowledge-only prompt is sent and the record is
\* what the response of the LLM gives
C24_FailedResearchIsRecorded ==
    (program = "conduct_comprehensive_research"
       /\ call.fn = "conduct_comprehensive_research") =>
        /\ DOMAIN call.research_results = Range(call.topics)
        /\ \A i \in 1..Len(call.topics) :
            LET topic == call.topics[i]
                returned == research_topic(topic, call.llms[i])
                research == call.research_results[topic]
            IN  /\ ~returned.raised
                /\ ResearchFails(call.llms[i]) =>
                    /\ DOMAIN returned.value = ResearchListFields \cup {"topic", "error"}
                    /\ returned.value["topic"] = JStr(topic)
                    /\ \A field \in ResearchListFields : returned.value[field] = JList(<<>>)
                /\ (i = LastIndex(call.topics, topic)) => research = returned.value
                /\ (call.searches[i] = "raises" /\ ~ResearchFails(call.llms[i])) =>
                    /\ call.prompts[i] = "knowledge"
                    /\ returned.value =
                          IF SearchObject(call.llms[i].toks).found
                          THEN JsonLoads(SearchObject(call.llms[i].toks).group).value
                          ELSE ResearchFallback(topic)
        /\ ~result.raised =>
            /\ result.value["research_results"] = call.research_results
            /\ \A k \in DOMAIN AggregatedFrom :
                result.value["aggregated_insights"][k] =
                    ExtendInsights(ResearchedTopics, call.research_results,
                                   AggregatedFrom[k], <<>>).value

\* the research of the first of two topics fails on a brace span that is not
\* JSON, the web search of the second fails, and the trends are those of the
\* second topic
C24_Witness ==
    /\ program = "conduct_comprehensive_research"
    /\ call.fn = "conduct_comprehensive_research"
    /\ Len(call.topics) = 2
    /\ call.topics[1] # call.topics[2]
    /\ call.llms = <<R_research_cut, R_research>>
    /\ call.searches[2] = "raises"
    /\ "error" \in DOMAIN call.research_results[call.topics[1]]
    /\ ~result.raised
    /\ result.value["aggregated_insights"]["all_trends"] = <<Lit("tr1")>>

\* the statuses of the record of a URL
RecordStatuses ==
    {JStr(Lit("success")), JStr(Lit("partial_success")), JStr(Lit("fallback")),
     JStr(Lit("failed"))}

\* how many records of summaries have a status of statuses
CountStatus(summaries, statuses) ==
    Cardinality({i \in 1..Len(summaries) : summaries[i]["status"] \in statuses})

\* C25: analyze_all_links makes one record per detected URL, in the order of
\* detection and with the URL it was made for; the status of every record is
\* success, partial_success, fallback or failed, whatever the JSON of the LLM
\* holds; the three counters add up to the number of records, fallback
\* records counting as partial; the dictionary returned holds these lists
\* and counters, and total_urls is the length of both lists
C25_OneRecordPerUrl ==
    program = "analyze_all_links" =>
        /\ Len(content_summaries) <= Len(urls)
        /\ \A i \in 1..Len(content_summaries) :
            /\ {"url", "status"} \subseteq DOMAIN content_summaries[i]
            /\ content_summaries[i]["url"] = JStr(Txt(urls[i]))
            /\ content_summaries[i]["status"] \in RecordStatuses
        /\ successful_analyses = CountStatus(content_summaries, {JStr(Lit("success"))})
        /\ partial_analyses =
              CountStatus(content_summaries,
                          {JStr(Lit("partial_success")), JStr(Lit("fallback"))})
        /\ failed_analyses = CountStatus(content_summaries, {JStr(Lit("failed"))})
        /\ successful_analyses + partial_analyses + failed_analyses = Len(content_summaries)
        /\ lpc = "returned" =>
            /\ final_analysis["urls_found"] = urls
            /\ final_analysis["content_summaries"] = content_summaries
            /\ final_analysis["total_urls"] = Len(urls)
            /\ Len(content_summaries) = Len(urls)
            /\ final_analysis["successful_analyses"] = successful_analyses
            /\ Get(final_analysis, "partial_analyses", 0) = partial_analyses
            /\ final_analysis["failed_analyses"] = failed_analyses
            /\ final_analysis["successful_analyses"]
                  + Get(final_analysis, "partial_analyses", 0)
                  + final_analysis["failed_analyses"] = final_analysis["total_urls"]

\* analyze_all_links has returned the analysis of two URLs: for the first the
\* JSON of the LLM held its own 'status' and 'url', the second is a fallback
C25_Witness ==
    /\ program = "analyze_all_links"
    /\ lpc = "returned"
    /\ Len(urls) = 2
    /\ final_analysis["successful_analyses"] = 1
    /\ final_analysis["partial_analyses"] = 1
    /\ content_summaries[1] =
          fetch_and_analyze_content(urls[1], TRUE, ExtractOk(1000), R_link_status).value
    /\ content_summaries[2]["status"] = JStr(Lit("fallback"))

\* the message of a failed composition is the final post of this run
ErrorPostComposed ==
    /\ program = "linkedin_multi_agent_generator"
    /\ final_post = ComposedPost(seq_calls, TRUE)

\* C26: when the LLM call of the composition raises, compose_linkedin_post
\* returns the message 'Error generating LinkedIn post: ...'; the run takes it
\* as its final post and goes on to save_workflow_metadata without raising;
\* from there generate_post returns the message to its caller, and a save
\* that works appends a record that holds it to the history
C26_CompositionErrorIsThePost ==
    /\ [](ErrorPostComposed =>
            /\ final_post.text = "Error generating LinkedIn post: {e}"
            /\ gpc = "returned" =>
                /\ outcome = [kind |-> "returned", post |-> final_post]
                /\ save_status = "saved" =>
                    /\ workflow_history_file.state = "list"
                    /\ workflow_history_file.records # <<>>
                    /\ workflow_history_file.records[Len(workflow_history_file.records)]
                          = Metadata(current_workflow_id, workflow_context, final_post)
                    /\ workflow_history_file.records[
                           Len(workflow_history_file.records)].final_post
                          = ComposedPost(seq_calls, TRUE))
    /\ [][/\ (ErrorPostComposed' /\ final_post' # final_post) =>
               /\ gpc = "composition"
               /\ gpc' = "save_workflow_metadata"
               /\ stage_raised' = stage_raised
               /\ outcome' = outcome
          /\ (ErrorPostComposed /\ gpc = "save_workflow_metadata" /\ gpc' # gpc) =>
               /\ gpc' = "returned"
               /\ outcome' = [kind |-> "returned", post |-> final_post]
               /\ final_post' = final_post]_vars

\* generate_post has returned the message of a failed composition, and the
\* history holds the record of that run
C26_Witness ==
    /\ program = "linkedin_multi_agent_generator"
    /\ gpc = "returned"
    /\ outcome.kind = "returned"
    /\ outcome.post = ComposedPost(seq_calls, TRUE)
    /\ save_status = "saved"
    /\ workflow_history_file.records # <<>>
    /\ workflow_history_file.records[Len(workflow_history_file.records)].final_post.text
          = "Error generating LinkedIn post: {e}"

\* the text holds the heading of the link analysis
HoldsLinkSection(text) ==
    \E i \in 1..Len(text) : text[i].label = "\nLINK ANALYSIS INSIGHTS:"

\* C27: the context that build_comprehensive_context returns holds the
\* section of the link analysis exactly when successful_analyses > 0; with no
\* successful analysis the context is the one built without any link
\* analysis, so that no theme, key point or quote that analyze_all_links
\* aggregated from partial or fallback records is in the context or in the
\* prompt of the composition
C27_LinkSectionNeedsSuccess ==
    (program = "compose"
       /\ call.fn \in {"build_comprehensive_context", "compose_linkedin_post"}
       /\ ~result.raised) =>
        LET text == IF call.fn = "build_comprehensive_context"
                    THEN result.value ELSE result.value.full_prompt
            successful == call.link_analysis["successful_analyses"]
            without_links == build_comprehensive_context(call.instructions, EmptyDict,
                                                         call.research_findings).value
        IN  /\ HoldsLinkSection(text) <=> successful > 0
            /\ (successful = 0 /\ call.fn = "build_comprehensive_context") =>
                   text = without_links
            /\ (successful = 0 /\ call.fn = "compose_linkedin_post") =>
                   /\ SubSeq(text, 4, 3 + Len(without_links)) = without_links
                   /\ text[4 + Len(without_links)].label =
                         "EXAMPLE POSTS (for style reference):"

\* a context was built from a link analysis whose only record is a partial
\* one with a key point: the key point was aggregated and is not in the context
C27_Witness ==
    /\ program = "compose"
    /\ call.fn = "build_comprehensive_context"
    /\ ~result.raised
    /\ call.link_analysis["successful_analyses"] = 0
    /\ Get(call.link_analysis, "partial_analyses", 0) = 1
    /\ call.link_analysis["all_key_points"] # <<>>
    /\ ~HoldsLinkSection(result.value)

\* the number of words of a text, a URL occurrence being one word
WordCount(text) ==
    IF text = <<>> THEN 0 ELSE Cardinality({i \in 1..Len(text) : text[i] = " "}) + 1

\* C28: detect_links returns at most one entry for each URL occurrence of
\* the instructions, so that a text of one word gives at most one entry: a
\* URL written with its scheme is not returned a second time under another
\* scheme
C28_OneEntryPerOccurrence ==
    LinksDetected =>
        /\ Len(urls) <= WordCount(instructions)
        /\ \A i, j \in 1..Len(urls) :
              (i # j /\ StartsWith(urls[i], HTTP_PREFIX)
                 /\ urls[j] = HTTPS_PREFIX \o SubSeq(urls[i], Len(HTTP_PREFIX) + 1, Len(urls[i]))) =>
                  \E k \in 1..Len(instructions) : OccursAt(instructions, urls[j], k)

\* C29: the grade of a report is the threshold mapping of the overall_score
\* that the report shows, the mean rounded to one decimal
C29_GradeOfReportedScore ==
    ReportReturned =>
        feedback.value.overall_assessment.grade =
            _score_to_grade(feedback.value.overall_assessment.overall_score, 10)

\* both processes have left save_workflow_metadata and both saves worked
BothSaved ==
    /\ program = "two_generators"
    /\ \A p \in Savers : savers[p].pc = "done" /\ savers[p].status = "saved"

\* the file holds the records of both processes
HoldsBothRecords ==
    /\ workflow_history_file.state = "list"
    /\ \A p \in Savers : InSeq(RunRecord(p), workflow_history_file.records)

\* C30 as stated: when two generator processes have both saved to the same
\* workflow_history.json, at overlapping times or not, the file holds the
\* records of both runs
C30_NoRecordLost == BothSaved => HoldsBothRecords

\* C30, amended: when two generator processes have both saved to the same
\* workflow_history.json and one of them read the file after the other had
\* finished its save, the file holds the records of both runs, after the
\* records it held before
C30_SequentialSavesKeepBoth ==
    (BothSaved /\ \E p \in Savers : savers[p].after_other) =>
        /\ HoldsBothRecords
        /\ \E p \in Savers :
              /\ savers[p].after_other
              /\ workflow_history_file.records = savers[p].history
              /\ savers[p].history = Append(savers[Other(p)].history, RunRecord(p))

\* two saves, one after the other, on a file that held the record of an
\* earlier run: the file holds three records
C30_Witness ==
    /\ BothSaved
    /\ \E p \in Savers : savers[p].after_other
    /\ Len(workflow_history_file.records) = 3
    /\ workflow_history_file.records[1] = EarlierRecord

====
